---- MODULE Spec2Model ----
(***************************************************************************)
(* Model of the YouTube transcript + channel profile service               *)
(* (app/main.py, app/utils.py, app/apify_client.py, app/gemini_rest.py).   *)
(*                                                                         *)
(* Text is kept in run-length form: a text is a sequence of runs           *)
(* [c |-> class, n |-> count].  A class is either one character repeated n *)
(* times (" ", "\t", "\n", ",", letters) or a block, a fixed multi-        *)
(* character unit that occurs whole ("http://", a code fence written      *)
(* "~~~" here, a JSON document).                                           *)
(* Adjacent runs of the same character are always merged, so two texts are *)
(* equal exactly when their run sequences are equal.                       *)
(***************************************************************************)
EXTENDS Integers, Sequences, FiniteSets, TLC

(***************************************************************************)
(* Python values: None, bool, int, str, list, dict                         *)
(***************************************************************************)
PyNone == [ty |-> "none"]

PyBool(b) == [ty |-> "bool", b |-> b]

PyInt(k) == [ty |-> "int", i |-> k]

PyStr(s) == [ty |-> "str", s |-> s]

PyList(l) == [ty |-> "list", l |-> l]

PyDict(d) == [ty |-> "dict", d |-> d]

\* Python truthiness: None, False, 0, "", [] and {} are falsy.
Truthy(x) ==
    CASE x.ty = "none" -> FALSE
      [] x.ty = "bool" -> x.b
      [] x.ty = "int"  -> x.i # 0
      [] x.ty = "str"  -> Len(x.s) > 0
      [] x.ty = "list" -> Len(x.l) > 0
      [] x.ty = "dict" -> DOMAIN x.d # {}

\* a or b
PyOr(a, b) == IF Truthy(a) THEN a ELSE b

IsDict(x) == x.ty = "dict"

\* d.get(k, dflt).  The code calls .get on values that are dicts; the one place
\* where the value may be something else is the projection of the aggregation
\* stage (ProjectionRaises below).
GetD(d, k, dflt) == IF IsDict(d) /\ k \in DOMAIN d.d THEN d.d[k] ELSE dflt

\* d.get(k)
Get(d, k) == GetD(d, k, PyNone)

\* k in d
Has(d, k) == IsDict(d) /\ k \in DOMAIN d.d

(***************************************************************************)
(* Run-length text                                                         *)
(***************************************************************************)
\* Multi-character units and their lengths in characters.
BlockLen ==
    ("http://" :> 7) @@ ("https://" :> 8) @@ ("ftp://" :> 6) @@
    ("~~~" :> 3) @@ ("json" :> 4) @@
    ("{ok:true}" :> 300) @@ ("{ok:true,hook:str}" :> 40) @@ ("{ok:false}" :> 12) @@
    ("tok" :> 3) @@
    ("urls is empty" :> 13) @@
    ("proj" :> 4) @@
    ("apify" :> 5) @@ ("transcript" :> 10) @@ ("gemini_video_analysis" :> 21) @@
    ("Apify failed" :> 12) @@
    ("NO_TRANSCRIPT_RETURNED_BY_APIFY" :> 31) @@
    ("APIFY_TOKEN is missing" :> 22) @@
    ("Apify HTTP 500: " :> 16) @@
    ("Apify returned unexpected payload: <class 'list'>" :> 49) @@
    ("Gemini output is not valid JSON even after repair" :> 49) @@
    ("No valid per-video analyses to build channel profile" :> 52) @@
    ("503 UNAVAILABLE" :> 15) @@
    ("gemini-2.5-flash" :> 16)

IsBlock(c) == c \in DOMAIN BlockLen

\* One whole block, or k copies of a character.
Blk(b) == [c |-> b, n |-> BlockLen[b]]

\* The text that is the one block b (a fixed message, a stage name, ...).
Lit(b) == <<Blk(b)>>

Ch(c, k) == [c |-> c, n |-> k]

\* str.strip() / \s whitespace
IsWs(c) == c \in {" ", "\t", "\n"}

RECURSIVE StrLen(_)
StrLen(s) == IF s = <<>> THEN 0 ELSE Head(s).n + StrLen(Tail(s))

\* Append run r to text s, merging it into the last run when both are runs of
\* the same character.
AddRun(s, r) ==
    IF r.n = 0 THEN s
    ELSE IF s # <<>> /\ ~IsBlock(r.c) /\ s[Len(s)].c = r.c
         THEN [s EXCEPT ![Len(s)] = Ch(r.c, s[Len(s)].n + r.n)]
         ELSE Append(s, r)

RECURSIVE Cat(_, _)
\* s + t
Cat(s, t) == IF t = <<>> THEN s ELSE Cat(AddRun(s, Head(t)), Tail(t))

RECURSIVE Slice(_, _)
\* s[:k] for k >= 0.  A block cut in the middle is no longer that block: what is
\* left of it is k ordinary characters.
Slice(s, k) ==
    IF s = <<>> \/ k <= 0 THEN <<>>
    ELSE IF Head(s).n <= k THEN Cat(<<Head(s)>>, Slice(Tail(s), k - Head(s).n))
    ELSE IF IsBlock(Head(s).c) THEN <<Ch("x", k)>>
    ELSE <<Ch(Head(s).c, k)>>

RECURSIVE LStrip(_)
LStrip(s) == IF s # <<>> /\ IsWs(Head(s).c) THEN LStrip(Tail(s)) ELSE s

RECURSIVE RStrip(_)
RStrip(s) ==
    IF s # <<>> /\ IsWs(s[Len(s)].c) THEN RStrip(SubSeq(s, 1, Len(s) - 1)) ELSE s

\* str.strip()
Strip(s) == RStrip(LStrip(s))

\* str.lower() on the characters the model uses
LowerCh(c) ==
    CASE c = "K" -> "k" [] c = "O" -> "o" [] c = "E" -> "e" [] c = "N" -> "n"
      [] OTHER -> c

RECURSIVE Lower(_)
Lower(s) ==
    IF s = <<>> THEN <<>>
    ELSE Cat(<<Ch(LowerCh(Head(s).c), Head(s).n)>>, Lower(Tail(s)))

\* Mutant of PySlice: nothing is cut.
PySliceKeepsAll(s, k) == s

\* s[:k] as Python slices: a negative k counts from the end.
PySlice(s, k) ==
    IF k < 0
    THEN Slice(s, IF StrLen(s) + k > 0 THEN StrLen(s) + k ELSE 0)
    ELSE Slice(s, k)

RECURSIVE JoinNl(_)
\* "\n".join(texts)
JoinNl(texts) ==
    IF texts = <<>> THEN <<>>
    ELSE IF Len(texts) = 1 THEN texts[1]
    ELSE Cat(Cat(texts[1], <<Ch("\n", 1)>>), JoinNl(Tail(texts)))

RECURSIVE Dedup(_, _)
\* The seen-set loop of normalize_urls and pick_language_priority: keep the first
\* occurrence of each element, in order.
Dedup(xs, seen) ==
    IF xs = <<>> THEN <<>>
    ELSE IF Head(xs) \in seen THEN Dedup(Tail(xs), seen)
    ELSE <<Head(xs)>> \o Dedup(Tail(xs), seen \cup {Head(xs)})

(***************************************************************************)
(* app/utils.py                                                            *)
(***************************************************************************)
\* A character of the class [\s,\n] of normalize_urls' re.split.
IsUrlSep(c) == IsWs(c) \/ c = ","

RECURSIVE ReSplit(_, _, _)
\* re.split(r"[\s,\n]+", s): the parts between maximal runs of separators, the
\* empty parts at either end included.  cur is the part being read; inSep says
\* that the previous run was a separator.
ReSplit(s, cur, inSep) ==
    IF s = <<>> THEN <<cur>>
    ELSE IF IsUrlSep(Head(s).c)
         THEN IF inSep THEN ReSplit(Tail(s), cur, TRUE)
              ELSE <<cur>> \o ReSplit(Tail(s), <<>>, TRUE)
         ELSE ReSplit(Tail(s), Append(cur, Head(s)), FALSE)

\* Mutant of IsHttpUrl: any token passes.
IsAnyToken(p) == p # <<>>

\* p.startswith("http://") or p.startswith("https://")
IsHttpUrl(p) == p # <<>> /\ Head(p).c \in {"http://", "https://"}

\* The cleaned list of normalize_urls: non-empty parts, stripped, with an
\* http(s) prefix.
CleanParts(parts) ==
    SelectSeq([i \in DOMAIN parts |-> Strip(parts[i])],
              LAMBDA p : p # <<>> /\ IsHttpUrl(p))

\* normalize_urls(urls): urls is None, a list of str, or a str.
normalize_urls(urls) ==
    IF urls.ty = "none" THEN <<>>
    ELSE LET raw == IF urls.ty = "list"
                    THEN LET kept == SelectSeq(urls.l, Truthy)
                         IN  [i \in DOMAIN kept |-> kept[i].s]
                    ELSE <<urls.s>>
             joined == IF urls.ty = "list" THEN JoinNl(raw) ELSE urls.s
         IN  Dedup(CleanParts(ReSplit(Strip(joined), <<>>, FALSE)), {})

\* Mutant of DefaultLanguages: there is no default.
NoDefaultLanguages == <<>>

\* The fixed default of pick_language_priority: ["ko", "en"]
DefaultLanguages == << <<Ch("k", 1), Ch("o", 1)>>, <<Ch("e", 1), Ch("n", 1)>> >>

\* pick_language_priority(languages): languages is None or a list of str.
pick_language_priority(languages) ==
    IF ~Truthy(languages) THEN DefaultLanguages
    ELSE LET out  == SelectSeq([i \in DOMAIN languages.l |->
                                   Lower(Strip(languages.l[i].s))],
                               LAMBDA t : t # <<>>)
             uniq == Dedup(out, {})
         IN  IF uniq # <<>> THEN uniq ELSE DefaultLanguages

RECURSIVE CollapseBlanks(_)
\* re.sub(r"[ \t]+", " ", t)
CollapseBlanks(s) ==
    IF s = <<>> THEN <<>>
    ELSE IF Head(s).c \in {" ", "\t"}
         THEN Cat(<<Ch(" ", 1)>>,
                  LET rest == CollapseBlanks(Tail(s))
                  IN  IF rest # <<>> /\ Head(rest) = Ch(" ", 1) THEN Tail(rest) ELSE rest)
         ELSE Cat(<<Head(s)>>, CollapseBlanks(Tail(s)))

\* re.sub(r"\n{3,}", "\n\n", t)
CollapseNewlines(s) ==
    [i \in DOMAIN s |-> IF s[i].c = "\n" /\ s[i].n >= 3 THEN Ch("\n", 2) ELSE s[i]]

\* compact_text(text, max_chars)
compact_text(text, max_chars) ==
    IF text = <<>> THEN <<>>
    ELSE LET t == CollapseNewlines(CollapseBlanks(text))
         IN  IF max_chars # 0 /\ StrLen(t) > max_chars
             THEN PySlice(t, max_chars)
             ELSE t

\* The text of one segment: seg.get("text") or seg.get("caption") or
\* seg.get("value") or "" for a dict, the segment itself for a str; <<>> when
\* the segment contributes nothing.  Text-like fields hold str values here.
SegmentText(seg) ==
    IF seg.ty = "dict"
    THEN LET txt == PyOr(Get(seg, "text"),
                         PyOr(Get(seg, "caption"),
                              PyOr(Get(seg, "value"), PyStr(<<>>))))
         IN  IF Truthy(txt) THEN <<txt.s>> ELSE <<>>
    ELSE IF seg.ty = "str" THEN <<seg.s>>
    ELSE <<>>

RECURSIVE SegmentTexts(_)
SegmentTexts(segs) ==
    IF segs = <<>> THEN <<>>
    ELSE SegmentText(Head(segs)) \o SegmentTexts(Tail(segs))

\* segments_to_text(segments, max_chars)
segments_to_text(segments, max_chars) ==
    IF ~Truthy(segments) \/ segments.ty # "list" THEN <<>>
    ELSE LET joined == Strip(JoinNl(SegmentTexts(segments.l)))
         IN  IF joined = <<>> THEN <<>>
             ELSE compact_text(joined,
                               IF max_chars # 0 THEN max_chars ELSE StrLen(joined))

(***************************************************************************)
(* JSON documents of the generation provider                               *)
(***************************************************************************)
\* What json.loads returns for each JSON document block.
\*   {ok:true}           a document of the video_analysis schema
\*   {ok:true,hook:str}  ok is true, but "hook" holds a string, not an object
\*   {ok:false}          a JSON object whose own ok flag is false
JsonValue ==
    [b \in {"{ok:true}", "{ok:true,hook:str}", "{ok:false}"} |->
        CASE b = "{ok:true}" ->
                 PyDict([ok |-> PyBool(TRUE),
                         video_index |-> PyInt(1),
                         hook |-> PyDict([summary |-> PyStr(<<Ch("s", 20)>>)]),
                         structure |-> PyDict([template |-> PyStr(<<Ch("t", 10)>>)]),
                         quotes |-> PyDict([items |-> PyList(<<>>)])])
          [] b = "{ok:true,hook:str}" ->
                 PyDict([ok |-> PyBool(TRUE),
                         hook |-> PyStr(<<Ch("h", 9)>>)])
          [] b = "{ok:false}" ->
                 PyDict([ok |-> PyBool(FALSE)])]

\* json.loads(t): [ok |-> TRUE, value |-> v], or [ok |-> FALSE] when it raises.
\* A text is valid JSON when, whitespace aside, it is one whole JSON document.
JsonLoads(t) ==
    LET u == Strip(t)
    IN  IF Len(u) = 1 /\ u[1].c \in DOMAIN JsonValue /\ u[1].n = BlockLen[u[1].c]
        THEN [ok |-> TRUE, value |-> JsonValue[u[1].c]]
        ELSE [ok |-> FALSE]

IsFence(r) == r.c = "~~~"

\* The positions of the code fences of t.
Fences(t) == {i \in DOMAIN t : IsFence(t[i])}

Least(S) == CHOOSE i \in S : \A j \in S : i <= j

\* re.search(r"~~~json\s*([\s\S]*?)~~~", t, re.IGNORECASE).group(1).strip(), as
\* [found |-> TRUE, inner |-> text] or [found |-> FALSE]: the leftmost fence that
\* is followed by the label and by a later fence, up to the next fence.
SearchJsonFence(t) ==
    LET opens == {i \in Fences(t) :
                     /\ i + 1 <= Len(t)
                     /\ t[i + 1].c = "json"
                     /\ \E j \in Fences(t) : j > i + 1}
    IN  IF opens = {} THEN [found |-> FALSE]
        ELSE LET i == Least(opens)
                 j == Least({k \in Fences(t) : k > i + 1})
             IN  [found |-> TRUE, inner |-> Strip(SubSeq(t, i + 2, j - 1))]

\* re.search(r"~~~\s*([\s\S]*?)~~~", t).group(1).strip()
SearchAnyFence(t) ==
    IF Cardinality(Fences(t)) < 2 THEN [found |-> FALSE]
    ELSE LET i == Least(Fences(t))
             j == Least({k \in Fences(t) : k > i})
         IN  [found |-> TRUE, inner |-> Strip(SubSeq(t, i + 1, j - 1))]

\* _extract_json_from_text(text): the parsed value, PyNone when the text is
\* empty or does not parse.
_extract_json_from_text(text) ==
    IF text = <<>> THEN PyNone
    ELSE LET t0 == Strip(text)
             m  == SearchJsonFence(t0)
             m2 == SearchAnyFence(t0)
             t  == IF Fences(t0) # {}
                   THEN IF m.found THEN m.inner
                        ELSE IF m2.found THEN m2.inner ELSE t0
                   ELSE t0
             r  == JsonLoads(t)
         IN  IF r.ok THEN r.value ELSE PyNone

(***************************************************************************)
(* app/apify_client.py                                                     *)
(***************************************************************************)
RECURSIVE FirstOf(_, _, _)
\* item.get(k1) or item.get(k2) or ... or dflt
FirstOf(item, keys, dflt) ==
    IF keys = <<>> THEN dflt
    ELSE PyOr(Get(item, Head(keys)), FirstOf(item, Tail(keys), dflt))

\* The standardised record built from the provider's item.
Standardize(item, language) ==
    LET transcript == FirstOf(item, <<"transcript", "captions", "segments">>, PyNone)
        transcript_text ==
            FirstOf(item, <<"transcript_text", "transcriptText", "text">>, PyStr(<<>>))
    IN  PyDict(
          [title |-> FirstOf(item, <<"title">>, PyStr(<<>>)),
           description |-> FirstOf(item, <<"description">>, PyStr(<<>>)),
           channel_name |->
               FirstOf(item, <<"channel_name", "channelName", "channel">>, PyStr(<<>>)),
           published_at |->
               FirstOf(item, <<"published_at", "publishedAt">>, PyStr(<<>>)),
           duration_seconds |-> FirstOf(item, <<"duration_seconds", "duration">>, PyNone),
           view_count |-> FirstOf(item, <<"view_count", "views">>, PyNone),
           like_count |-> FirstOf(item, <<"like_count", "likes">>, PyNone),
           comment_count |->
               FirstOf(item, <<"comment_count", "commentsCount">>, PyNone),
           language |-> PyOr(Get(item, "language"), PyStr(language)),
           transcript |-> IF Truthy(transcript) THEN transcript ELSE PyList(<<>>),
           transcript_text |->
               IF transcript_text.ty = "str" THEN transcript_text ELSE PyStr(<<>>),
           raw |-> item])

\* fetch_transcript_and_metadata(youtube_url, language, token) when the
\* provider answers the POST with http:
\*   [kind |-> "raise", msg |-> m]               the request raised (a timeout, ...)
\*   [kind |-> "http", code |-> c, data |-> d]   status c with the JSON body d
\* The result is [ok |-> TRUE, data |-> record] or [ok |-> FALSE, error |-> str(e)].
fetch_transcript_and_metadata(youtube_url, language, token, http) ==
    IF token = <<>> THEN [ok |-> FALSE, error |-> Lit("APIFY_TOKEN is missing")]
    ELSE IF http.kind = "raise" THEN [ok |-> FALSE, error |-> http.msg]
    ELSE IF http.code >= 400 THEN [ok |-> FALSE, error |-> Lit("Apify HTTP 500: ")]
    ELSE IF http.data.ty = "list" /\ Len(http.data.l) > 0 /\ IsDict(http.data.l[1])
         THEN [ok |-> TRUE, data |-> Standardize(http.data.l[1], language)]
    ELSE IF IsDict(http.data)
         THEN [ok |-> TRUE, data |-> Standardize(http.data, language)]
    ELSE [ok |-> FALSE,
          error |-> Lit("Apify returned unexpected payload: <class 'list'>")]

(***************************************************************************)
(* app/gemini_rest.py                                                      *)
(***************************************************************************)
\* analyze_with_gemini(prompt) when generate_content returns a response whose
\* text is resp_text (a str or None).
analyze_with_gemini(resp_text) ==
    PyDict([ok |-> PyBool(TRUE),
            model |-> PyStr(Lit("gemini-2.5-flash")),
            text |-> PyStr(Strip(PyOr(resp_text, PyStr(<<>>)).s))])

(***************************************************************************)
(* app/main.py: results of one item                                        *)
(***************************************************************************)
MAX_TRANSCRIPT_CHARS == 18000

AnalysisTextLimit == 1200

\* enumerate(urls) numbers the 1-based position p with i = p - 1; the item's
\* index is i + 1.
ItemIndex(p) == (p - 1) + 1

\* Mutant of FetchFailedResult: the error of the attempts is dropped.
FetchFailedWithoutError(idx, url, apify_error) ==
    PyDict([index |-> PyInt(idx),
            url |-> PyStr(url),
            ok |-> PyBool(FALSE),
            stage |-> PyStr(Lit("apify")),
            error |-> PyStr(Lit("Apify failed"))])

\* The result returned when no fetch attempt produced a record.
FetchFailedResult(idx, url, apify_error) ==
    PyDict([index |-> PyInt(idx),
            url |-> PyStr(url),
            ok |-> PyBool(FALSE),
            stage |-> PyStr(Lit("apify")),
            error |-> PyOr(apify_error, PyStr(Lit("Apify failed")))])

\* Mutant of NoTranscriptResult: the metadata of the record is not kept.
NoTranscriptWithoutMeta(idx, url, apify_data) ==
    PyDict([index |-> PyInt(idx),
            url |-> PyStr(url),
            ok |-> PyBool(FALSE),
            stage |-> PyStr(Lit("transcript")),
            error |-> PyStr(Lit("NO_TRANSCRIPT_RETURNED_BY_APIFY"))])

\* The result returned when the record yields no transcript text.
NoTranscriptResult(idx, url, apify_data) ==
    PyDict([index |-> PyInt(idx),
            url |-> PyStr(url),
            ok |-> PyBool(FALSE),
            stage |-> PyStr(Lit("transcript")),
            meta |-> PyDict([title |-> GetD(apify_data, "title", PyStr(<<>>)),
                             channel |-> GetD(apify_data, "channel_name", PyStr(<<>>)),
                             published_at |->
                                 GetD(apify_data, "published_at", PyStr(<<>>)),
                             language |-> Get(apify_data, "language")]),
            error |-> PyStr(Lit("NO_TRANSCRIPT_RETURNED_BY_APIFY"))])

\* meta of an item whose transcript was obtained
MetaOf(apify_data) ==
    PyDict([title |-> GetD(apify_data, "title", PyStr(<<>>)),
            description |-> GetD(apify_data, "description", PyStr(<<>>)),
            channel |-> GetD(apify_data, "channel_name", PyStr(<<>>)),
            published_at |-> GetD(apify_data, "published_at", PyStr(<<>>)),
            duration_seconds |-> Get(apify_data, "duration_seconds"),
            view_count |-> Get(apify_data, "view_count"),
            like_count |-> Get(apify_data, "like_count"),
            comment_count |-> Get(apify_data, "comment_count"),
            language |-> Get(apify_data, "language")])

\* transcript_text of lines 110-117 when MAX_TRANSCRIPT_CHARS is max_chars: the
\* direct text, else the joined segments.
TranscriptTextOf(apify_data, max_chars) ==
    LET direct == compact_text(PyOr(Get(apify_data, "transcript_text"), PyStr(<<>>)).s,
                               max_chars)
    IN  IF direct # <<>> THEN direct
        ELSE segments_to_text(Get(apify_data, "transcript"), max_chars)

\* transcript_text of lines 110-117 under the default setting.
ExtractTranscript(apify_data) == TranscriptTextOf(apify_data, MAX_TRANSCRIPT_CHARS)

\* analysis = {"ok": True, "text": analysis_text}
AnalysisOk(analysis_text) ==
    PyDict([ok |-> PyBool(TRUE), text |-> PyStr(analysis_text)])

\* Mutant of AnalysisFailed: the failure is reported as a success.
AnalysisFailedReportedOk(error, analysis_text) ==
    PyDict([ok |-> PyBool(TRUE),
            text |-> PyStr(PySlice(analysis_text, AnalysisTextLimit))])

\* Mutant of AnalysisFailed: the text is not cut.
AnalysisFailedUncut(error, analysis_text) ==
    PyDict([ok |-> PyBool(FALSE),
            error |-> PyStr(error),
            text |-> PyStr(analysis_text)])

\* analysis = {"ok": False, "error": str(e), "text": analysis_text[:1200]}
AnalysisFailed(error, analysis_text) ==
    PyDict([ok |-> PyBool(FALSE),
            error |-> PyStr(error),
            text |-> PyStr(PySlice(analysis_text, AnalysisTextLimit))])

\* The result returned once the transcript was obtained.
AnalyzedResult(idx, url, meta, transcript_text, analysis) ==
    PyDict([index |-> PyInt(idx),
            url |-> PyStr(url),
            ok |-> PyBool(TRUE),
            meta |-> meta,
            transcript_chars |-> PyInt(StrLen(transcript_text)),
            videoAnalysis |-> analysis])

(***************************************************************************)
(* app/main.py: aggregation and warnings                                   *)
(***************************************************************************)
EmptyDict == PyDict(<<>>)

\* The sub-objects of the parsed analysis that the projection reads with .get
DnaSections == {"hook", "structure", "style_tone", "expression_markers", "retention"}

\* parsed.get(k) or {}
Section(parsed, k) == PyOr(Get(parsed, k), EmptyDict)

\* The projection calls .get on each section: it raises AttributeError when a
\* section is a truthy value that is not a dict.
ProjectionRaises(parsed) == \E k \in DnaSections : ~IsDict(Section(parsed, k))

\* slim of lines 262-290
SlimOf(parsed) ==
    LET hook == Section(parsed, "hook")
        structure == Section(parsed, "structure")
        style_tone == Section(parsed, "style_tone")
        expression_markers == Section(parsed, "expression_markers")
        retention == Section(parsed, "retention")
        quotes == PyOr(Get(parsed, "quotes"), PyDict([items |-> PyList(<<>>)]))
    IN  PyDict(
          [video_index |-> Get(parsed, "video_index"),
           hook |-> PyDict(
               [summary |-> Get(hook, "summary"),
                techniques |-> PyOr(Get(hook, "techniques"), PyList(<<>>)),
                frames |-> PyOr(Get(hook, "frames"), PyList(<<>>))]),
           structure |-> PyDict(
               [template |-> Get(structure, "template"),
                beats |-> PyOr(Get(structure, "beats"), PyList(<<>>)),
                pacing |-> Get(structure, "pacing")]),
           style_tone |-> PyDict(
               [persona |-> Get(style_tone, "persona"),
                narration_style |-> Get(style_tone, "narration_style"),
                tone_keywords |-> PyOr(Get(style_tone, "tone_keywords"), PyList(<<>>))]),
           expression_markers |-> PyDict(
               [punctuation |-> PyOr(Get(expression_markers, "punctuation"), PyList(<<>>)),
                catchphrases |->
                    PyOr(Get(expression_markers, "catchphrases"), PyList(<<>>)),
                rhythm |-> Get(expression_markers, "rhythm"),
                numbers_style |-> Get(expression_markers, "numbers_style")]),
           retention |-> PyDict(
               [recurring_devices |->
                    PyOr(Get(retention, "recurring_devices"), PyList(<<>>)),
                cta |-> Get(retention, "cta")]),
           quotes |-> quotes])

\* Mutant of SkipsAnalysis: a failed analysis is not skipped.
SkipsNoAnalysis(va) == ~IsDict(va)

\* "if not isinstance(va, dict) or va.get("ok") is False: continue"
SkipsAnalysis(va) == ~IsDict(va) \/ Get(va, "ok") = PyBool(FALSE)

\* One pass of the loop of lines 240-305 over the video v:
\*   [kind |-> "skip"]               continue
\*   [kind |-> "raise"]              the projection raised
\*   [kind |-> "keep", rec |-> r]    analyses.append(r)
Evidence(v) ==
    IF ~Truthy(Get(v, "ok")) THEN [kind |-> "skip"]
    ELSE LET va == Get(v, "videoAnalysis")
         IN  IF SkipsAnalysis(va) THEN [kind |-> "skip"]
             ELSE LET text   == Strip(PyOr(Get(va, "text"), PyStr(<<>>)).s)
                      parsed == _extract_json_from_text(text)
                      isDna  == IsDict(parsed) /\ Get(parsed, "ok") = PyBool(TRUE)
                      vmeta  == PyOr(Get(v, "meta"), EmptyDict)
                  IN  IF isDna /\ ProjectionRaises(parsed) THEN [kind |-> "raise"]
                      ELSE [kind |-> "keep",
                            rec |-> PyDict(
                              [index |-> Get(v, "index"),
                               url |-> PyOr(Get(v, "url"), PyStr(<<>>)),
                               meta |-> PyDict(
                                 [title |-> GetD(vmeta, "title", PyStr(<<>>)),
                                  channel |-> GetD(vmeta, "channel", PyStr(<<>>)),
                                  published_at |->
                                      GetD(vmeta, "published_at", PyStr(<<>>)),
                                  language |-> GetD(vmeta, "language", PyStr(<<>>))]),
                               dna |-> IF isDna THEN SlimOf(parsed)
                                       ELSE PyDict([raw_text |->
                                              PyStr(PySlice(text, AnalysisTextLimit))])])]

RECURSIVE BuildAnalyses(_)
\* The whole loop: [raised |-> TRUE] when a pass raised, else the analyses list.
BuildAnalyses(vs) ==
    IF vs = <<>> THEN [raised |-> FALSE, analyses |-> <<>>]
    ELSE LET e == Evidence(Head(vs))
         IN  IF e.kind = "raise" THEN [raised |-> TRUE, analyses |-> <<>>]
             ELSE LET rest == BuildAnalyses(Tail(vs))
                  IN  IF rest.raised THEN rest
                      ELSE [raised |-> FALSE,
                            analyses |-> (IF e.kind = "keep" THEN <<e.rec>> ELSE <<>>)
                                         \o rest.analyses]

\* Mutant of WarningsOf: only the items with outer ok=false are reported.
WarningsOfFailedItems(v) ==
    IF ~Truthy(Get(v, "ok"))
    THEN << PyDict([index |-> Get(v, "index"),
                    url |-> Get(v, "url"),
                    stage |-> Get(v, "stage"),
                    error |-> Get(v, "error")]) >>
    ELSE <<>>

\* The warnings one video contributes in _build_warnings (none or one).
WarningsOf(v) ==
    IF ~Truthy(Get(v, "ok"))
    THEN << PyDict([index |-> Get(v, "index"),
                    url |-> Get(v, "url"),
                    stage |-> Get(v, "stage"),
                    error |-> Get(v, "error")]) >>
    ELSE LET va == PyOr(Get(v, "videoAnalysis"), EmptyDict)
         IN  IF IsDict(va) /\ Get(va, "ok") = PyBool(FALSE)
             THEN << PyDict([index |-> Get(v, "index"),
                             url |-> Get(v, "url"),
                             stage |-> PyStr(Lit("gemini_video_analysis")),
                             error |-> Get(va, "error")]) >>
             ELSE <<>>

RECURSIVE _build_warnings(_)
_build_warnings(vs) ==
    IF vs = <<>> THEN <<>> ELSE WarningsOf(Head(vs)) \o _build_warnings(Tail(vs))

\* The ResponseDocument of lines 323-329
ResponseDocument(vs, profile) ==
    PyDict([ok |-> PyBool(TRUE),
            count |-> PyInt(Len(vs)),
            videos |-> PyList(vs),
            channelProfile |-> profile,
            warnings |-> PyList(_build_warnings(vs))])

\* Mutant of NoAnalysesProfile: the profile is left None.
NoAnalysesProfileLeftNone == PyNone

\* channel_profile when no analysis was kept (line 319)
NoAnalysesProfile ==
    PyDict([ok |-> PyBool(FALSE),
            error |-> PyStr(Lit("No valid per-video analyses to build channel profile"))])

\* Mutant of ProfileError: the message of the exception is lost.
ProfileErrorWithoutMessage(error) ==
    PyDict([ok |-> PyBool(FALSE), error |-> PyStr(<<>>)])

\* channel_profile when the synthesis call raised (line 317)
ProfileError(error) == PyDict([ok |-> PyBool(FALSE), error |-> PyStr(error)])

(***************************************************************************)
(* Inputs: requests, provider answers                                      *)
(***************************************************************************)
MaxUrls == 2

MaxConcurrency == 2

\* The k-th video URL: "https://" followed by k characters.
Url(k) == <<Blk("https://"), Ch("v", k)>>

\* A list of entries none of which is an http(s) URL: an ftp URL and a blank.
NoHttpUrls ==
    PyList(<<PyStr(<<Blk("ftp://"), Ch("v", 1)>>), PyStr(<<Ch(" ", 1)>>)>>)

\* req.urls: the lists [Url(m), ..., Url(1)] of 0..MaxUrls distinct URLs, a
\* list with one URL twice in one entry between commas and blanks, an empty
\* entry and an entry that is no http(s) URL, and a list without any http(s)
\* URL.  AnalyzeReq declares urls as List[str]: null does not pass validation.
UrlInputs ==
    { PyList([k \in 1..m |-> PyStr(Url(m + 1 - k))]) : m \in 0..MaxUrls }
    \cup { PyList(<<PyStr(<<Ch(",", 1)>> \o Url(1) \o <<Ch(" ", 2), Ch(",", 1)>>
                          \o Url(1) \o <<Ch("\n", 1)>>),
                    PyStr(<<>>),
                    PyStr(<<Blk("ftp://"), Ch("v", 1)>>)>>) }
    \cup { NoHttpUrls }

\* req.languages: [] and [" EN\n"]
LanguageInputs ==
    { PyList(<<>>),
      PyList(<<PyStr(<<Ch(" ", 1), Ch("E", 1), Ch("N", 1), Ch("\n", 1)>>)>>) }

\* Requests that passed AnalyzeReq validation.
Requests ==
    [urls : UrlInputs,
     languages : LanguageInputs,
     concurrency : 1..MaxConcurrency,
     make_channel_profile : BOOLEAN]

\* An item with a flat transcript text longer than MAX_TRANSCRIPT_CHARS.
ItemWithText ==
    PyDict([title |-> PyStr(<<Ch("T", 5)>>),
            channelName |-> PyStr(<<Ch("C", 4)>>),
            publishedAt |-> PyStr(<<Ch("2", 10)>>),
            language |-> PyStr(<<Ch("j", 1), Ch("a", 1)>>),
            transcriptText |->
                PyStr(<<Ch("w", 5), Ch(" ", 3), Ch("w", 20000), Ch("\n", 4), Ch("w", 2)>>)])

\* An item with caption segments only and no language of its own.
ItemWithSegments ==
    PyDict([title |-> PyStr(<<Ch("S", 7)>>),
            captions |-> PyList(<<PyDict([text |-> PyStr(<<Ch("a", 3)>>)]),
                                  PyDict([start |-> PyInt(3)]),
                                  PyDict([caption |-> PyStr(<<Ch("b", 2), Ch(" ", 2)>>)])>>)])

\* An item without any transcript.
ItemWithoutTranscript ==
    PyDict([title |-> PyStr(<<Ch("N", 6)>>),
            channel |-> PyStr(<<Ch("C", 4)>>),
            published_at |-> PyStr(<<Ch("2", 10)>>),
            transcript_text |-> PyStr(<<>>),
            segments |-> PyList(<<PyDict([start |-> PyInt(0)])>>)])

\* What the transcript provider may answer to one POST.
ProviderResponses ==
    { [kind |-> "raise", msg |-> <<>>],
      [kind |-> "http", code |-> 500, data |-> PyNone],
      [kind |-> "http", code |-> 200, data |-> PyList(<<ItemWithText>>)],
      [kind |-> "http", code |-> 200, data |-> ItemWithSegments],
      [kind |-> "http", code |-> 200, data |-> PyList(<<ItemWithoutTranscript>>)] }

\* resp.text of the generation provider: a fenced document of the schema, a
\* long text that is no JSON, a document with a string where an object is
\* expected, and a document whose ok flag is false.
GenTexts ==
    { PyStr(<<Ch("\n", 1), Blk("~~~"), Blk("json"), Ch("\n", 1), Blk("{ok:true}"),
              Ch("\n", 1), Blk("~~~"), Ch(" ", 1)>>),
      PyStr(<<Ch("x", 7000)>>),
      PyStr(<<Blk("{ok:true,hook:str}")>>),
      PyStr(<<Blk("{ok:false}")>>) }

\* resp.text of the synthesis call: a fenced document, or None.
SynthTexts ==
    { PyStr(<<Blk("~~~"), Blk("json"), Ch("\n", 1), Blk("{ok:true}"), Blk("~~~")>>),
      PyNone }

\* str(e) of the errors the generation call may raise.
GenErrors == { Lit("503 UNAVAILABLE") }

(***************************************************************************)
(* State                                                                   *)
(***************************************************************************)
VARIABLES
    APIFY_TOKEN,      \* the configured provider token
    req,              \* the validated AnalyzeReq
    mainpc,           \* where _analyze_impl is
    urls,             \* normalize_urls(req.urls)
    lang_priority,    \* pick_language_priority(req.languages)
    sem,              \* the value of the semaphore
    pc,               \* per item: where _process_one is
    attempt,          \* per item: position in lang_priority of the running fetch
    apify_error,      \* per item: apify_error
    meta,             \* per item: meta
    transcript_text,  \* per item: transcript_text
    analysis_text,    \* per item: analysis_text
    result,           \* per item: what _process_one returned
    fetchLog,         \* per item: the fetch calls issued, with their outcome
    genLog,           \* per item: the generation calls issued, with their outcome
    overtaken,        \* some item returned while an earlier item was still running
    synthCalls,       \* number of synthesis generation calls issued
    synthLog,         \* the synthesis generation calls issued, with their outcome
    videos,           \* what asyncio.gather returned
    analyses,         \* the analyses list handed to the synthesis call
    response,         \* what _analyze_impl returned
    exception,        \* the exception that left _analyze_impl, None when none
    GOOGLE_CLOUD_PROJECT, \* the project the environment names, <<>> when none
    call,             \* a call of a function of app/utils.py taken on its own
    ret,              \* what that call returned
    _client,          \* the module global _client of app/gemini_rest.py
    thread,           \* per worker thread: where analyze_with_gemini is
    created           \* number of genai.Client objects constructed

vars ==
    <<APIFY_TOKEN, req, mainpc, urls, lang_priority, sem, pc, attempt, apify_error,
      meta, transcript_text, analysis_text, result, fetchLog, genLog, overtaken,
      synthCalls, synthLog, videos, analyses, response, exception, GOOGLE_CLOUD_PROJECT,
      call, ret, _client, thread, created>>

\* What the request handler never touches: the stand-alone calls of the utility
\* functions and the worker threads' view of the provider client.
side == <<GOOGLE_CLOUD_PROJECT, call, ret, _client, thread, created>>

Items == DOMAIN urls

\* No call of a utility function is being looked at.
NoCall == [fn |-> "none"]

\* No utility call and no worker thread: the provider client is not built.
SideIdle ==
    /\ GOOGLE_CLOUD_PROJECT = <<>>
    /\ call = NoCall
    /\ ret = PyNone
    /\ _client = PyNone
    /\ thread = <<>>
    /\ created = 0

\* _analyze_impl has not been entered.
HandlerIdle ==
    /\ mainpc = "start"
    /\ urls = <<>>
    /\ lang_priority = <<>>
    /\ sem = 0
    /\ pc = <<>>
    /\ attempt = <<>>
    /\ apify_error = <<>>
    /\ meta = <<>>
    /\ transcript_text = <<>>
    /\ analysis_text = <<>>
    /\ result = <<>>
    /\ fetchLog = <<>>
    /\ genLog = <<>>
    /\ overtaken = FALSE
    /\ synthCalls = 0
    /\ synthLog = <<>>
    /\ videos = <<>>
    /\ analyses = <<>>
    /\ response = PyNone
    /\ exception = PyNone

Init ==
    /\ APIFY_TOKEN \in {<<>>, Lit("tok")}
    /\ req \in Requests
    /\ HandlerIdle
    /\ SideIdle

(***************************************************************************)
(* _analyze_impl, lines 222-233: normalisation and fan-out                 *)
(***************************************************************************)
\* fastapi.HTTPException(status_code, detail)
HTTPException(status_code, detail) ==
    [ty |-> "HTTPException", status_code |-> status_code, detail |-> detail]

\* Mutant of UrlsEmptyError: the rejection is reported as a server error.
UrlsEmptyServerError == HTTPException(500, Lit("urls is empty"))

\* HTTPException(400, "urls is empty")
UrlsEmptyError == HTTPException(400, Lit("urls is empty"))

\* The AttributeError of calling .get on a value that is not a dict.
AttributeError == [ty |-> "AttributeError"]

\* if not urls: raise HTTPException(400, "urls is empty")
Reject ==
    /\ mainpc = "start"
    /\ normalize_urls(req.urls) = <<>>
    /\ mainpc' = "rejected"
    /\ exception' = UrlsEmptyError
    /\ UNCHANGED <<side, APIFY_TOKEN, req, urls, lang_priority, sem, pc, attempt, apify_error,
                   meta, transcript_text, analysis_text, result, fetchLog, genLog,
                   overtaken, synthCalls, synthLog, videos, analyses, response>>

\* The semaphore and one _process_one task per URL are created; gather awaits.
Start ==
    /\ mainpc = "start"
    /\ normalize_urls(req.urls) # <<>>
    /\ urls' = normalize_urls(req.urls)
    /\ lang_priority' = pick_language_priority(req.languages)
    /\ sem' = req.concurrency
    /\ pc' = [p \in DOMAIN urls' |-> "sem"]
    /\ attempt' = [p \in DOMAIN urls' |-> 0]
    /\ apify_error' = [p \in DOMAIN urls' |-> PyNone]
    /\ meta' = [p \in DOMAIN urls' |-> PyNone]
    /\ transcript_text' = [p \in DOMAIN urls' |-> <<>>]
    /\ analysis_text' = [p \in DOMAIN urls' |-> <<>>]
    /\ result' = [p \in DOMAIN urls' |-> PyNone]
    /\ fetchLog' = [p \in DOMAIN urls' |-> <<>>]
    /\ genLog' = [p \in DOMAIN urls' |-> <<>>]
    /\ mainpc' = "gather"
    /\ UNCHANGED <<side, exception, APIFY_TOKEN, req, overtaken, synthCalls, synthLog, videos, analyses, response>>

(***************************************************************************)
(* _process_one                                                            *)
(***************************************************************************)
\* Mutant of SemCanAcquire: the gate never blocks.
SemNeverBlocks(value) == TRUE

\* asyncio.Semaphore: acquire passes only while the value is positive.
SemCanAcquire(value) == value > 0

\* __aenter__ of "async with sem": acquire() takes one from the value.
SemAfterAcquire(value) == value - 1

\* Mutant of SemAfterRelease: the slot is not given back.
SemNotReleased(value) == value

\* __aexit__ of "async with sem": release() adds one to the value.
SemAfterRelease(value) == value + 1

\* _process_one returns res: the locals go, the semaphore is released on the
\* way out of "async with sem".
Return(p, res, semNow) ==
    /\ pc' = [pc EXCEPT ![p] = "done"]
    /\ result' = [result EXCEPT ![p] = res]
    /\ sem' = SemAfterRelease(semNow)
    /\ attempt' = [attempt EXCEPT ![p] = 0]
    /\ apify_error' = [apify_error EXCEPT ![p] = PyNone]
    /\ meta' = [meta EXCEPT ![p] = PyNone]
    /\ transcript_text' = [transcript_text EXCEPT ![p] = <<>>]
    /\ analysis_text' = [analysis_text EXCEPT ![p] = <<>>]
    /\ overtaken' = (overtaken \/ \E q \in Items : q < p /\ pc[q] # "done")

\* A fetch call for the language at position k is issued.
IssueFetch(p, k, log) ==
    /\ attempt' = [attempt EXCEPT ![p] = k]
    /\ fetchLog' = [fetchLog EXCEPT ![p] =
                       Append(log, [lang |-> lang_priority[k], status |-> "pending",
                                    error |-> <<>>, data |-> PyNone])]

\* The fetch log with the running call settled: it raised with str(e) = error.
FetchRaised(log, error) ==
    [log EXCEPT ![Len(log)].status = "raised", ![Len(log)].error = error]

\* The fetch log with the running call settled: it returned the record data.
FetchReturned(log, data) ==
    [log EXCEPT ![Len(log)].status = "returned", ![Len(log)].data = data]

\* A generation call of the given kind is issued.
IssueGen(p, kind, log) ==
    genLog' = [genLog EXCEPT ![p] =
                  Append(log, [kind |-> kind, status |-> "pending", text |-> <<>>])]

\* The generation log with the running call settled.
GenSettled(log, status, text) ==
    [log EXCEPT ![Len(log)].status = status, ![Len(log)].text = text]

\* The loop of lines 85-98 after an attempt raised: is there a next language?
HasNextLanguage(k) == k < Len(lang_priority)

\* Mutant of StopsAfterReturn: the loop goes on when the record has no transcript.
StopsOnlyWithTranscript(apify_data) == ExtractTranscript(apify_data) # <<>>

\* The loop of lines 85-98 after an attempt returned a record: break, whatever
\* the record holds.
StopsAfterReturn(apify_data) == TRUE

\* Mutant of IsEmptyTranscript: no item ends for want of a transcript.
NeverEmptyTranscript(text) == FALSE

\* "if not transcript_text" after the extraction: the item has no transcript.
IsEmptyTranscript(text) == text = <<>>

\* "async with sem" is entered and the first fetch call is issued.
Acquire(p) ==
    /\ pc[p] = "sem"
    /\ SemCanAcquire(sem)
    /\ IF lang_priority = <<>>
       THEN /\ Return(p, FetchFailedResult(ItemIndex(p), urls[p], PyNone),
                      SemAfterAcquire(sem))
            /\ UNCHANGED fetchLog
       ELSE /\ pc' = [pc EXCEPT ![p] = "fetch"]
            /\ sem' = SemAfterAcquire(sem)
            /\ IssueFetch(p, 1, fetchLog[p])
            /\ UNCHANGED <<apify_error, meta, transcript_text, analysis_text, result,
                           overtaken>>
    /\ UNCHANGED <<side, exception, APIFY_TOKEN, req, mainpc, urls, lang_priority, genLog, synthCalls, synthLog,
                   videos, analyses, response>>

\* The running fetch call raised: the next language is tried, or the item fails.
FetchRaises(p, http) ==
    /\ pc[p] = "fetch"
    /\ LET o == fetch_transcript_and_metadata(urls[p], lang_priority[attempt[p]],
                                              APIFY_TOKEN, http)
           log == FetchRaised(fetchLog[p], IF o.ok THEN <<>> ELSE o.error)
       IN  /\ ~o.ok
           /\ IF HasNextLanguage(attempt[p])
              THEN /\ IssueFetch(p, attempt[p] + 1, log)
                   /\ apify_error' = [apify_error EXCEPT ![p] = PyStr(o.error)]
                   /\ UNCHANGED <<pc, sem, meta, transcript_text, analysis_text, result,
                                  overtaken>>
              ELSE /\ Return(p, FetchFailedResult(ItemIndex(p), urls[p], PyStr(o.error)),
                             sem)
                   /\ fetchLog' = [fetchLog EXCEPT ![p] = log]
    /\ UNCHANGED <<side, exception, APIFY_TOKEN, req, mainpc, urls, lang_priority, genLog, synthCalls, synthLog,
                   videos, analyses, response>>

\* The running fetch call returned a record: the transcript is extracted, and
\* the item ends without one or issues the first generation call.
FetchReturns(p, http) ==
    /\ pc[p] = "fetch"
    /\ LET o == fetch_transcript_and_metadata(urls[p], lang_priority[attempt[p]],
                                              APIFY_TOKEN, http)
           log == FetchReturned(fetchLog[p], IF o.ok THEN o.data ELSE PyNone)
       IN  /\ o.ok
           /\ IF ~StopsAfterReturn(o.data) /\ HasNextLanguage(attempt[p])
              THEN /\ IssueFetch(p, attempt[p] + 1, log)
                   /\ apify_error' = [apify_error EXCEPT ![p] = PyNone]
                   /\ UNCHANGED <<pc, sem, meta, transcript_text, analysis_text, result,
                                  genLog, overtaken>>
              ELSE /\ fetchLog' = [fetchLog EXCEPT ![p] = log]
                   /\ IF ~Truthy(o.data)
                      THEN /\ Return(p, FetchFailedResult(ItemIndex(p), urls[p], PyNone),
                                     sem)
                           /\ UNCHANGED genLog
                      ELSE IF IsEmptyTranscript(ExtractTranscript(o.data))
                      THEN /\ Return(p, NoTranscriptResult(ItemIndex(p), urls[p], o.data),
                                     sem)
                           /\ UNCHANGED genLog
                      ELSE /\ pc' = [pc EXCEPT ![p] = "gen1"]
                           /\ apify_error' = [apify_error EXCEPT ![p] = PyNone]
                           /\ meta' = [meta EXCEPT ![p] = MetaOf(o.data)]
                           /\ transcript_text' =
                                  [transcript_text EXCEPT ![p] = ExtractTranscript(o.data)]
                           /\ analysis_text' = [analysis_text EXCEPT ![p] = <<>>]
                           /\ IssueGen(p, "video_analysis", genLog[p])
                           /\ UNCHANGED <<sem, attempt, result, overtaken>>
    /\ UNCHANGED <<side, exception, APIFY_TOKEN, req, mainpc, urls, lang_priority, synthCalls, synthLog, videos,
                   analyses, response>>

\* analysis_text = (first.get("text") or "").strip()
AnalysisTextOf(gen) == Strip(PyOr(Get(gen, "text"), PyStr(<<>>)).s)

\* Mutant of NeedsRepair: no repair call is ever made.
NeverRepairs(parsed) == FALSE

\* "if parsed is None": the output did not parse, a repair call follows.
NeedsRepair(parsed) == parsed = PyNone

\* The first generation call returned.
GenReturns(p, resp_text) ==
    /\ pc[p] = "gen1"
    /\ LET text   == AnalysisTextOf(analyze_with_gemini(resp_text))
           parsed == _extract_json_from_text(text)
           log    == GenSettled(genLog[p], "returned", text)
       IN  IF NeedsRepair(parsed)
           THEN /\ pc' = [pc EXCEPT ![p] = "gen2"]
                /\ analysis_text' = [analysis_text EXCEPT ![p] = text]
                /\ IssueGen(p, "repair", log)
                /\ UNCHANGED <<sem, attempt, apify_error, meta, transcript_text, result,
                               overtaken>>
           ELSE /\ Return(p, AnalyzedResult(ItemIndex(p), urls[p], meta[p],
                                            transcript_text[p], AnalysisOk(text)),
                          sem)
                /\ genLog' = [genLog EXCEPT ![p] = log]
    /\ UNCHANGED <<side, exception, APIFY_TOKEN, req, mainpc, urls, lang_priority, fetchLog, synthCalls, synthLog,
                   videos, analyses, response>>

\* The repair generation call returned: its parse decides, there is no third call.
RepairReturns(p, resp_text) ==
    /\ pc[p] = "gen2"
    /\ LET text    == AnalysisTextOf(analyze_with_gemini(resp_text))
           parsed2 == _extract_json_from_text(text)
           analysis ==
               IF parsed2 = PyNone
               THEN AnalysisFailed(Lit("Gemini output is not valid JSON even after repair"),
                                   text)
               ELSE AnalysisOk(text)
       IN  /\ Return(p, AnalyzedResult(ItemIndex(p), urls[p], meta[p], transcript_text[p],
                                       analysis),
                     sem)
           /\ genLog' = [genLog EXCEPT ![p] = GenSettled(@, "returned", text)]
    /\ UNCHANGED <<side, exception, APIFY_TOKEN, req, mainpc, urls, lang_priority, fetchLog, synthCalls, synthLog,
                   videos, analyses, response>>

\* A generation call of the item raised: the except clause of line 185.
GenRaises(p, error) ==
    /\ pc[p] \in {"gen1", "gen2"}
    /\ Return(p, AnalyzedResult(ItemIndex(p), urls[p], meta[p], transcript_text[p],
                                AnalysisFailed(error, analysis_text[p])),
              sem)
    /\ genLog' = [genLog EXCEPT ![p] = GenSettled(@, "raised", error)]
    /\ UNCHANGED <<side, exception, APIFY_TOKEN, req, mainpc, urls, lang_priority, fetchLog, synthCalls, synthLog,
                   videos, analyses, response>>

(***************************************************************************)
(* _analyze_impl, lines 233-329: fan-in, aggregation, response             *)
(***************************************************************************)
\* Mutant of GatherComplete: the wait ends with the first task that returns.
GatherFirstCompleted == \E p \in Items : pc[p] = "done"

\* asyncio.gather returns once every task has returned.
GatherComplete == \A p \in Items : pc[p] = "done"

\* Mutant of Gathered: results are listed as the tasks complete, so that a
\* task overtaken by a later one comes out behind it.
GatheredAsCompleted ==
    IF overtaken THEN [p \in Items |-> result[Len(urls) + 1 - p]]
    ELSE [p \in Items |-> result[p]]

\* gather's result list: the tasks' results in the order of the tasks.
Gathered == [p \in Items |-> result[p]]

\* channel_profile stays None when no profile is asked for.
ReturnWithoutProfile ==
    /\ mainpc = "gather"
    /\ GatherComplete
    /\ ~req.make_channel_profile
    /\ videos' = Gathered
    /\ response' = ResponseDocument(Gathered, PyNone)
    /\ mainpc' = "returned"
    /\ UNCHANGED <<side, exception, APIFY_TOKEN, req, urls, lang_priority, sem, pc, attempt, apify_error,
                   meta, transcript_text, analysis_text, result, fetchLog, genLog,
                   overtaken, synthCalls, synthLog, analyses>>

\* The projection of a parsed analysis raised outside any try block: the
\* exception leaves _analyze_impl.
AggregationRaises ==
    /\ mainpc = "gather"
    /\ GatherComplete
    /\ req.make_channel_profile
    /\ BuildAnalyses(Gathered).raised
    /\ videos' = Gathered
    /\ mainpc' = "raised"
    /\ exception' = AttributeError
    /\ UNCHANGED <<side, APIFY_TOKEN, req, urls, lang_priority, sem, pc, attempt, apify_error,
                   meta, transcript_text, analysis_text, result, fetchLog, genLog,
                   overtaken, synthCalls, synthLog, analyses, response>>

\* No analysis was kept: no synthesis call.
ReturnNoAnalyses ==
    /\ mainpc = "gather"
    /\ GatherComplete
    /\ req.make_channel_profile
    /\ ~BuildAnalyses(Gathered).raised
    /\ BuildAnalyses(Gathered).analyses = <<>>
    /\ videos' = Gathered
    /\ response' = ResponseDocument(Gathered, NoAnalysesProfile)
    /\ mainpc' = "returned"
    /\ UNCHANGED <<side, exception, APIFY_TOKEN, req, urls, lang_priority, sem, pc, attempt, apify_error,
                   meta, transcript_text, analysis_text, result, fetchLog, genLog,
                   overtaken, synthCalls, synthLog, analyses>>

\* The synthesis generation call is issued.
SynthCall ==
    /\ mainpc = "gather"
    /\ GatherComplete
    /\ req.make_channel_profile
    /\ ~BuildAnalyses(Gathered).raised
    /\ BuildAnalyses(Gathered).analyses # <<>>
    /\ videos' = Gathered
    /\ analyses' = BuildAnalyses(Gathered).analyses
    /\ synthCalls' = synthCalls + 1
    /\ synthLog' = Append(synthLog, [kind |-> "channel_profile", status |-> "pending",
                                      text |-> <<>>])
    /\ mainpc' = "synth"
    /\ UNCHANGED <<side, exception, APIFY_TOKEN, req, urls, lang_priority, sem, pc, attempt, apify_error,
                   meta, transcript_text, analysis_text, result, fetchLog, genLog,
                   overtaken, response>>

\* The synthesis call returned: its response is the profile.
SynthReturns(resp_text) ==
    /\ mainpc = "synth"
    /\ response' = ResponseDocument(videos, analyze_with_gemini(resp_text))
    /\ synthLog' = GenSettled(synthLog, "returned",
                              Get(analyze_with_gemini(resp_text), "text").s)
    /\ analyses' = <<>>
    /\ mainpc' = "returned"
    /\ UNCHANGED <<side, exception, APIFY_TOKEN, req, urls, lang_priority, sem, pc, attempt, apify_error,
                   meta, transcript_text, analysis_text, result, fetchLog, genLog,
                   overtaken, synthCalls, videos>>

\* The synthesis call raised: the except clause of line 316.
SynthRaises(error) ==
    /\ mainpc = "synth"
    /\ response' = ResponseDocument(videos, ProfileError(error))
    /\ synthLog' = GenSettled(synthLog, "raised", error)
    /\ analyses' = <<>>
    /\ mainpc' = "returned"
    /\ UNCHANGED <<side, exception, APIFY_TOKEN, req, urls, lang_priority, sem, pc, attempt, apify_error,
                   meta, transcript_text, analysis_text, result, fetchLog, genLog,
                   overtaken, synthCalls, videos>>

Next ==
    \/ Reject
    \/ Start
    \/ \E p \in Items : Acquire(p)
    \/ \E p \in Items, http \in ProviderResponses : FetchRaises(p, http)
    \/ \E p \in Items, http \in ProviderResponses : FetchReturns(p, http)
    \/ \E p \in Items, t \in GenTexts : GenReturns(p, t)
    \/ \E p \in Items, t \in GenTexts : RepairReturns(p, t)
    \/ \E p \in Items, e \in GenErrors : GenRaises(p, e)
    \/ ReturnWithoutProfile
    \/ AggregationRaises
    \/ ReturnNoAnalyses
    \/ SynthCall
    \/ \E t \in SynthTexts : SynthReturns(t)
    \/ \E e \in GenErrors : SynthRaises(e)

Spec == Init /\ [][Next]_vars

(***************************************************************************)
(* Properties                                                              *)
(***************************************************************************)
\* The videos of the returned document.
ResponseVideos == Get(response, "videos").l

\* Items past the gate that have not returned yet.
InFlight == {p \in Items : pc[p] \in {"fetch", "gen1", "gen2"}}

\* C1: the returned document holds one result per URL of the normalized
\* (duplicate-free, first-seen order) URL list, count is that length, and the
\* k-th result carries index k and the k-th URL, whatever order the items
\* returned in.
C1_VideosFollowUrlOrder ==
    mainpc = "returned" =>
        LET expected == normalize_urls(req.urls)
        IN  /\ Len(ResponseVideos) = Len(expected)
            /\ Get(response, "count") = PyInt(Len(expected))
            /\ \A j, k \in DOMAIN expected : j # k => expected[j] # expected[k]
            /\ \A k \in DOMAIN ResponseVideos :
                  /\ Get(ResponseVideos[k], "index") = PyInt(k)
                  /\ Get(ResponseVideos[k], "url") = PyStr(expected[k])

\* A document with two results is returned after the second item returned
\* before the first, for URLs given in the order Url(2), Url(1).
C1_Witness ==
    /\ mainpc = "returned"
    /\ overtaken
    /\ Len(ResponseVideos) = 2
    /\ Get(ResponseVideos[1], "url") = PyStr(Url(2))
    /\ Get(ResponseVideos[2], "index") = PyInt(2)

\* C2: once the request is accepted, no failure of an item or of the
\* aggregation stage leaves _analyze_impl.
C2_NoFailureLeavesAnalyzeImpl == mainpc # "raised"

\* C3: the items past the admission gate that have not returned are never
\* more than the request's concurrency.
C3_InFlightWithinConcurrency == Cardinality(InFlight) <= req.concurrency

\* The gate is full and an item waits at it.
C3_Witness ==
    /\ Cardinality(InFlight) = req.concurrency
    /\ \E p \in Items : pc[p] = "sem"

\* C4: the aggregation stage (filtering, the synthesis call, the response)
\* begins only when every item has run its own pipeline to a result: every item
\* has returned, with a result of its own and with its own fetch attempts
\* settled, whatever happened to the other items.
C4_FailOpen ==
    (mainpc \in {"synth", "returned", "raised"} \/ synthCalls > 0) =>
        \A p \in Items :
            /\ pc[p] = "done"
            /\ IsDict(result[p])
            /\ Get(result[p], "url") = PyStr(urls[p])
            /\ fetchLog[p] # <<>>
            /\ \A k \in DOMAIN fetchLog[p] : fetchLog[p][k].status # "pending"

\* With one slot, the first item failed its fetch, the second item ran after
\* it and was analysed, and the synthesis call was made.
C4_Witness ==
    /\ mainpc = "returned"
    /\ req.concurrency = 1
    /\ ~overtaken
    /\ Len(ResponseVideos) = 2
    /\ Get(ResponseVideos[1], "stage") = PyStr(Lit("apify"))
    /\ Get(Get(ResponseVideos[2], "videoAnalysis"), "ok") = PyBool(TRUE)
    /\ synthCalls = 1

\* C5: the fetch calls of an item follow the language priority, one at a
\* time: the k-th call is for the k-th language, every call before the last
\* one raised, and a call is running only while the item is fetching.
C5_SequentialFallback ==
    \A p \in Items :
        /\ Len(fetchLog[p]) <= Len(lang_priority)
        /\ \A k \in DOMAIN fetchLog[p] :
              /\ fetchLog[p][k].lang = lang_priority[k]
              /\ k < Len(fetchLog[p]) => fetchLog[p][k].status = "raised"
              /\ fetchLog[p][k].status = "pending" => pc[p] = "fetch"

\* One item stopped at its first call, which returned a record without any
\* transcript, although a second language was left; another item made a second
\* call after its first one raised.
C5_Witness ==
    /\ Len(lang_priority) = 2
    /\ \E p, q \in Items :
          /\ pc[p] = "done"
          /\ Len(fetchLog[p]) = 1
          /\ fetchLog[p][1].status = "returned"
          /\ Get(result[p], "stage") = PyStr(Lit("transcript"))
          /\ Len(fetchLog[q]) = 2
          /\ fetchLog[q][1].status = "raised"
          /\ fetchLog[q][2].status = "returned"

\* The last entry of a log.
Last(log) == log[Len(log)]

\* Every language was tried for item p and every call raised.
AllFetchesRaised(p) ==
    /\ pc[p] = "done"
    /\ Len(fetchLog[p]) = Len(lang_priority)
    /\ \A k \in DOMAIN fetchLog[p] : fetchLog[p][k].status = "raised"

\* The result of an item whose fetch failed: ok=false, stage "apify", no meta,
\* no videoAnalysis.
IsFetchFailure(res) ==
    /\ Get(res, "ok") = PyBool(FALSE)
    /\ Get(res, "stage") = PyStr(Lit("apify"))
    /\ ~Has(res, "meta")
    /\ ~Has(res, "videoAnalysis")

\* C6 as stated: when every fetch call raised, the item's result is a fetch
\* failure whose error is the error string of the last call.
C6_ErrorIsLastErrorString ==
    \A p \in Items :
        AllFetchesRaised(p) =>
            /\ IsFetchFailure(result[p])
            /\ Get(result[p], "error") = PyStr(Last(fetchLog[p]).error)

\* C6 amended: the error is the error string of the last call when that
\* string is not empty, and "Apify failed" when it is empty.
C6_ErrorIsLastErrorOrDefault ==
    \A p \in Items :
        AllFetchesRaised(p) =>
            /\ IsFetchFailure(result[p])
            /\ Get(result[p], "error") =
                   IF Last(fetchLog[p]).error # <<>>
                   THEN PyStr(Last(fetchLog[p]).error)
                   ELSE PyStr(Lit("Apify failed"))

\* Two calls raised with different error strings and the result carries the
\* second one.
C6_Witness ==
    \E p \in Items :
        /\ AllFetchesRaised(p)
        /\ Len(fetchLog[p]) = 2
        /\ fetchLog[p][1].error # fetchLog[p][2].error
        /\ fetchLog[p][2].error # <<>>
        /\ Get(result[p], "error") = PyStr(fetchLog[p][2].error)

\* The record that the last fetch call of item p returned.
FetchedRecord(p) == Last(fetchLog[p]).data

\* Item p has returned and its last fetch call returned a record.
FetchSucceeded(p) ==
    /\ pc[p] = "done"
    /\ fetchLog[p] # <<>>
    /\ Last(fetchLog[p]).status = "returned"

\* Neither the direct transcript text of the record nor its joined segments
\* yield text.
YieldsNoText(data) ==
    /\ compact_text(Get(data, "transcript_text").s, MAX_TRANSCRIPT_CHARS) = <<>>
    /\ segments_to_text(Get(data, "transcript"), MAX_TRANSCRIPT_CHARS) = <<>>

\* C7: when the fetch succeeded and the record yields no text, the result has
\* ok=false, stage "transcript", error NO_TRANSCRIPT_RETURNED_BY_APIFY, the
\* title, channel, published_at and language of the record as meta, and no
\* videoAnalysis.
C7_NoTranscriptKeepsMeta ==
    \A p \in Items :
        (FetchSucceeded(p) /\ YieldsNoText(FetchedRecord(p))) =>
            /\ Get(result[p], "ok") = PyBool(FALSE)
            /\ Get(result[p], "stage") = PyStr(Lit("transcript"))
            /\ Get(result[p], "error") = PyStr(Lit("NO_TRANSCRIPT_RETURNED_BY_APIFY"))
            /\ Has(result[p], "meta")
            /\ DOMAIN Get(result[p], "meta").d =
                   {"title", "channel", "published_at", "language"}
            /\ Get(Get(result[p], "meta"), "title") = Get(FetchedRecord(p), "title")
            /\ Get(Get(result[p], "meta"), "channel") =
                   Get(FetchedRecord(p), "channel_name")
            /\ Get(Get(result[p], "meta"), "published_at") =
                   Get(FetchedRecord(p), "published_at")
            /\ Get(Get(result[p], "meta"), "language") =
                   Get(FetchedRecord(p), "language")
            /\ ~Has(result[p], "videoAnalysis")

\* An item whose second fetch call returned a record without transcript: the
\* result keeps the record's title and the language of that call.
C7_Witness ==
    \E p \in Items :
        /\ FetchSucceeded(p)
        /\ YieldsNoText(FetchedRecord(p))
        /\ Len(fetchLog[p]) = 2
        /\ Truthy(Get(Get(result[p], "meta"), "title"))
        /\ Get(Get(result[p], "meta"), "language") = PyStr(lang_priority[2])

\* The generation output t parses as structured data.
Parses(t) == _extract_json_from_text(t) # PyNone

\* The analysis sub-result of item p.
VideoAnalysis(p) == Get(result[p], "videoAnalysis")

\* C8: an item makes at most two generation calls, the analysis call and then
\* the repair call; the repair call is made exactly when the first output did
\* not parse; a first output that parses ends the item with a successful
\* analysis; the parse of the repaired output decides the analysis.
C8_OneRepairAtMost ==
    \A p \in Items :
        LET g == genLog[p]
        IN  /\ Len(g) <= 2
            /\ Len(g) >= 1 => g[1].kind = "video_analysis"
            /\ Len(g) = 2 =>
                  /\ g[2].kind = "repair"
                  /\ g[1].status = "returned"
                  /\ ~Parses(g[1].text)
            /\ (Len(g) >= 1 /\ g[1].status = "returned" /\ Parses(g[1].text)) =>
                  /\ Len(g) = 1
                  /\ pc[p] = "done"
                  /\ Get(VideoAnalysis(p), "ok") = PyBool(TRUE)
            /\ (Len(g) >= 1 /\ g[1].status = "returned" /\ ~Parses(g[1].text)) =>
                  Len(g) = 2
            /\ (Len(g) = 2 /\ g[2].status = "returned") =>
                  /\ pc[p] = "done"
                  /\ Get(VideoAnalysis(p), "ok") = PyBool(Parses(g[2].text))

\* An item whose first output did not parse and whose repaired output did.
C8_Witness ==
    \E p \in Items :
        /\ pc[p] = "done"
        /\ Len(genLog[p]) = 2
        /\ genLog[p][2].status = "returned"
        /\ Parses(genLog[p][2].text)
        /\ Get(VideoAnalysis(p), "ok") = PyBool(TRUE)

\* The analysis of item p failed: its last generation call raised, or the
\* repaired output did not parse.
AnalysisDidFail(p) ==
    /\ genLog[p] # <<>>
    /\ \/ Last(genLog[p]).status = "raised"
       \/ /\ Len(genLog[p]) = 2
          /\ Last(genLog[p]).status = "returned"
          /\ ~Parses(Last(genLog[p]).text)

\* C9: an item whose transcript was obtained has outer ok=true whatever the
\* analysis did; when the analysis failed, videoAnalysis has ok=false, the
\* error, and a text of at most 1200 characters.
C9_OuterOkDespiteAnalysisFailure ==
    \A p \in Items :
        (FetchSucceeded(p) /\ ~YieldsNoText(FetchedRecord(p))) =>
            /\ Get(result[p], "ok") = PyBool(TRUE)
            /\ IsDict(VideoAnalysis(p))
            /\ AnalysisDidFail(p) =>
                  /\ Get(VideoAnalysis(p), "ok") = PyBool(FALSE)
                  /\ Get(VideoAnalysis(p), "error") =
                         IF Last(genLog[p]).status = "raised"
                         THEN PyStr(Last(genLog[p]).text)
                         ELSE PyStr(Lit("Gemini output is not valid JSON even after repair"))
                  /\ Has(VideoAnalysis(p), "text")
                  /\ StrLen(Get(VideoAnalysis(p), "text").s) <= 1200

\* An item whose repaired output, longer than 1200 characters, did not parse:
\* the result has outer ok=true and a text of exactly 1200 characters.
C9_Witness ==
    \E p \in Items :
        /\ FetchSucceeded(p)
        /\ AnalysisDidFail(p)
        /\ Last(genLog[p]).status = "returned"
        /\ StrLen(Last(genLog[p]).text) > 1200
        /\ Get(result[p], "ok") = PyBool(TRUE)
        /\ StrLen(Get(VideoAnalysis(p), "text").s) = 1200

\* C10: in the returned document channelProfile is None exactly when
\* make_channel_profile is false; when the flag is true it is the response of
\* the synthesis call or an {ok: false, error} object.
C10_ProfileIffRequested ==
    mainpc = "returned" =>
        LET profile == Get(response, "channelProfile")
        IN  /\ Has(response, "channelProfile")
            /\ (profile = PyNone) <=> ~req.make_channel_profile
            /\ req.make_channel_profile =>
                  \/ /\ Get(profile, "ok") = PyBool(TRUE)
                     /\ Has(profile, "text")
                  \/ /\ Get(profile, "ok") = PyBool(FALSE)
                     /\ Has(profile, "error")

\* A profile was asked for and no analysis could be kept: the document carries
\* the failure object, and no synthesis call was made.
C10_Witness ==
    /\ mainpc = "returned"
    /\ req.make_channel_profile
    /\ synthCalls = 0
    /\ Get(Get(response, "channelProfile"), "ok") = PyBool(FALSE)

\* Item p was analysed and its analysis sub-result is AnalysisOk.
IsAnalysisOk(p) ==
    /\ Get(result[p], "ok") = PyBool(TRUE)
    /\ Get(VideoAnalysis(p), "ok") = PyBool(TRUE)

\* The structured content parsed from the analysis text of item p.
ParsedContent(p) == _extract_json_from_text(Get(VideoAnalysis(p), "text").s)

\* The parsed content of item p carries its own ok flag set to true.
ContentOk(p) == Get(ParsedContent(p), "ok") = PyBool(TRUE)

\* The item an evidence record was built from.
ItemOf(rec) == Get(rec, "index").i

\* C11 as stated: every evidence record handed to the synthesis call comes from
\* an item with an AnalysisOk sub-result whose parsed content has ok=true, and an
\* item whose parsed content lacks ok=true has no record.
C11_EvidenceOnlyFromOkContent ==
    mainpc = "synth" =>
        /\ \A k \in DOMAIN analyses :
              /\ ItemOf(analyses[k]) \in Items
              /\ IsAnalysisOk(ItemOf(analyses[k]))
              /\ ContentOk(ItemOf(analyses[k]))
        /\ \A p \in Items :
              (IsAnalysisOk(p) /\ ~ContentOk(p)) =>
                  \A k \in DOMAIN analyses : ItemOf(analyses[k]) # p

\* C11 amended: the evidence records are, in item order, one record for each
\* item with an AnalysisOk sub-result and none for any other item; the record
\* of an item whose parsed content has ok=true carries the projected sections,
\* the record of an item whose parsed content lacks ok=true carries only the
\* first 1200 characters of the analysis text as raw_text.
C11_EvidencePerOkAnalysis ==
    mainpc = "synth" =>
        /\ \A k \in DOMAIN analyses :
              /\ ItemOf(analyses[k]) \in Items
              /\ IsAnalysisOk(ItemOf(analyses[k]))
              /\ Get(analyses[k], "url") = PyStr(urls[ItemOf(analyses[k])])
              /\ \A j \in DOMAIN analyses :
                    j < k => ItemOf(analyses[j]) < ItemOf(analyses[k])
        /\ \A p \in Items :
              IsAnalysisOk(p) =>
                  \E k \in DOMAIN analyses :
                      /\ ItemOf(analyses[k]) = p
                      /\ LET dna == Get(analyses[k], "dna")
                             text == Get(VideoAnalysis(p), "text").s
                         IN  IF ContentOk(p)
                             THEN /\ DOMAIN dna.d =
                                         {"video_index", "quotes"} \cup DnaSections
                                  /\ Get(dna, "video_index") =
                                         Get(ParsedContent(p), "video_index")
                             ELSE dna = PyDict([raw_text |->
                                                  PyStr(PySlice(text, AnalysisTextLimit))])

\* The synthesis call is given two records: one with projected sections, and
\* one with raw_text only, from an item whose parsed content has ok=false.
C11_Witness ==
    /\ mainpc = "synth"
    /\ Len(analyses) = 2
    /\ \E j, k \in DOMAIN analyses :
          /\ Has(Get(analyses[j], "dna"), "hook")
          /\ Has(Get(analyses[k], "dna"), "raw_text")
          /\ ~ContentOk(ItemOf(analyses[k]))

\* The items kept for synthesis: those with an AnalysisOk sub-result.
Kept == {p \in Items : pc[p] = "done" /\ IsAnalysisOk(p)}

\* The channelProfile of the returned document.
Profile == Get(response, "channelProfile")

Warnings == Get(response, "warnings").l

\* Item p ended with outer ok=false (its fetch failed or it had no transcript).
ItemFailed(p) == Get(result[p], "ok") = PyBool(FALSE)

\* Item p ended with outer ok=true and a failed analysis.
ItemAnalysisFailed(p) == Get(result[p], "ok") = PyBool(TRUE) /\ AnalysisDidFail(p)

\* The items that must be reported, in item order.
Reported ==
    SelectSeq([p \in 1..Len(urls) |-> p],
              LAMBDA p : ItemFailed(p) \/ ItemAnalysisFailed(p))

\* C13: the warnings of the returned document are, in item order, one entry for
\* each item with outer ok=false, with that item's stage and error, and one
\* entry with stage "gemini_video_analysis" and the analysis error for each
\* item with outer ok=true whose analysis failed; no other item has an entry,
\* and every entry carries the index and url of its item in videos.
C13_WarningsMatchFailures ==
    mainpc = "returned" =>
        /\ Len(Warnings) = Len(Reported)
        /\ \A k \in DOMAIN Warnings :
              LET p == Reported[k]
                  w == Warnings[k]
              IN  /\ DOMAIN w.d = {"index", "url", "stage", "error"}
                  /\ Get(w, "index") = PyInt(p)
                  /\ Get(w, "index") = Get(ResponseVideos[p], "index")
                  /\ Get(w, "url") = Get(ResponseVideos[p], "url")
                  /\ Get(w, "url") = PyStr(urls[p])
                  /\ IF ItemFailed(p)
                     THEN /\ Get(w, "stage") = Get(result[p], "stage")
                          /\ Get(w, "stage") \in {PyStr(Lit("apify")), PyStr(Lit("transcript"))}
                          /\ Get(w, "error") = Get(result[p], "error")
                     ELSE /\ Get(w, "stage") = PyStr(Lit("gemini_video_analysis"))
                          /\ Get(w, "error") = Get(VideoAnalysis(p), "error")
                          /\ Get(w, "error").ty = "str"

\* Two items: the first has outer ok=true and a failed analysis, the second
\* failed its fetch; the document has two warnings in that order.
C13_Witness ==
    /\ mainpc = "returned"
    /\ Len(Warnings) = 2
    /\ ItemAnalysisFailed(1)
    /\ ItemFailed(2)
    /\ Get(Warnings[1], "stage") = PyStr(Lit("gemini_video_analysis"))
    /\ Get(Warnings[2], "stage") = PyStr(Lit("apify"))

(***************************************************************************)
(* The functions of app/utils.py and the transcript extraction of          *)
(* _process_one, each called on its own with arguments drawn from small    *)
(* sets.  The request handler stays idle.                                  *)
(***************************************************************************)
MaxEntries == 2

\* The lists of at most MaxEntries entries drawn from S, as Python lists of str.
ListsOf(S) ==
    UNION { { PyList([i \in 1..n |-> PyStr(f[i])]) : f \in [1..n -> S] } :
            n \in 0..MaxEntries }

\* Entries of a urls list: empty, blank, a URL, a URL between blanks, two URLs
\* in one entry, the same URL twice in one entry, an http URL, tokens that are
\* not http(s) URLs.
UrlEntries ==
    { <<>>,
      <<Ch(" ", 2)>>,
      Url(1),
      <<Ch("\t", 1)>> \o Url(2) \o <<Ch("\n", 2)>>,
      Url(2) \o <<Ch(",", 1), Ch(" ", 1)>> \o Url(1),
      <<Ch(",", 2)>> \o Url(1) \o <<Ch("\n", 1)>> \o Url(1),
      <<Blk("http://"), Ch("v", 1)>>,
      <<Blk("ftp://"), Ch("v", 1)>>,
      <<Ch("v", 1), Blk("https://")>> }

\* What normalize_urls may be given: None, one str, a list of str.
UrlArgs == {PyNone} \cup {PyStr(e) : e \in UrlEntries} \cup ListsOf(UrlEntries)

\* Entries of a languages list: "", " ", "en", "EN", " En\n", "ko", "\tKO "
LanguageEntries ==
    { <<>>,
      <<Ch(" ", 1)>>,
      <<Ch("e", 1), Ch("n", 1)>>,
      <<Ch("E", 1), Ch("N", 1)>>,
      <<Ch(" ", 1), Ch("E", 1), Ch("n", 1), Ch("\n", 1)>>,
      <<Ch("k", 1), Ch("o", 1)>>,
      <<Ch("\t", 1), Ch("K", 1), Ch("O", 1), Ch(" ", 1)>> }

\* What pick_language_priority may be given: None or a list of str.
LanguageArgs == {PyNone} \cup ListsOf(LanguageEntries)

\* "Hello   world\n\n\n\nEnd" as flat transcript text (letters as runs).
ItemHelloWorld ==
    PyDict([transcript_text |->
                PyStr(<<Ch("H", 5), Ch(" ", 3), Ch("w", 5), Ch("\n", 4), Ch("E", 3)>>)])

\* An item whose segments are plain strings and dicts with a "value" field,
\* with blanks and blank lines to compact.
ItemWithLongSegments ==
    PyDict([segments |->
                PyList(<<PyStr(<<Ch(" ", 2), Ch("a", 40), Ch("\t", 2), Ch(" ", 1)>>),
                         PyDict([value |-> PyStr(<<Ch("\n", 5), Ch("b", 40)>>)]),
                         PyStr(<<Ch("c", 30), Ch("\n", 1)>>)>>)])

\* The records fetch_transcript_and_metadata may return.
FetchedRecords ==
    { Standardize(item, <<Ch("e", 1), Ch("n", 1)>>) :
        item \in {ItemWithText, ItemWithSegments, ItemWithoutTranscript,
                  ItemHelloWorld, ItemWithLongSegments} }

\* Values of the MAX_TRANSCRIPT_CHARS setting: int(os.getenv(...)) of line 20
\* takes any integer.
MaxCharsSettings == {-3, 0, 1, 4, 7, 12, 50, 100, MAX_TRANSCRIPT_CHARS}

\* The calls looked at.
UtilCalls ==
    { [fn |-> "normalize_urls", urls |-> u, again |-> FALSE] : u \in UrlArgs }
    \cup { [fn |-> "pick_language_priority", languages |-> l] : l \in LanguageArgs }
    \cup { [fn |-> "transcript_text", apify_data |-> d, max_chars |-> m] :
             d \in FetchedRecords, m \in MaxCharsSettings }

\* A list of texts as a Python list of str.
StrList(texts) == PyList([i \in DOMAIN texts |-> PyStr(texts[i])])

\* A request that is never handled.
NoRequest ==
    [urls |-> PyList(<<>>), languages |-> PyList(<<>>), concurrency |-> 1,
     make_channel_profile |-> FALSE]

\* The state of the request handler.
handler ==
    <<APIFY_TOKEN, req, mainpc, urls, lang_priority, sem, pc, attempt, apify_error,
      meta, transcript_text, analysis_text, result, fetchLog, genLog, overtaken,
      synthCalls, synthLog, videos, analyses, response, exception>>

UtilInit ==
    /\ APIFY_TOKEN = <<>>
    /\ req = NoRequest
    /\ HandlerIdle
    /\ GOOGLE_CLOUD_PROJECT = <<>>
    /\ call \in UtilCalls
    /\ ret = PyNone
    /\ _client = PyNone
    /\ thread = <<>>
    /\ created = 0

\* normalize_urls(urls) returns.
CallNormalizeUrls ==
    /\ call.fn = "normalize_urls"
    /\ ret = PyNone
    /\ ret' = StrList(normalize_urls(call.urls))
    /\ UNCHANGED <<handler, GOOGLE_CLOUD_PROJECT, call, _client, thread, created>>

\* normalize_urls is called on what it returned.
CallNormalizeUrlsAgain ==
    /\ call.fn = "normalize_urls"
    /\ ~call.again
    /\ ret # PyNone
    /\ call' = [fn |-> "normalize_urls", urls |-> ret, again |-> TRUE]
    /\ ret' = PyNone
    /\ UNCHANGED <<handler, GOOGLE_CLOUD_PROJECT, _client, thread, created>>

\* pick_language_priority(languages) returns.
CallPickLanguagePriority ==
    /\ call.fn = "pick_language_priority"
    /\ ret = PyNone
    /\ ret' = StrList(pick_language_priority(call.languages))
    /\ UNCHANGED <<handler, GOOGLE_CLOUD_PROJECT, call, _client, thread, created>>

\* Lines 110-117 and 193 of _process_one on the record call.apify_data: the
\* transcript text, and the transcript_chars the item's result reports (None
\* when the item ends without transcript).
CallTranscriptText ==
    /\ call.fn = "transcript_text"
    /\ ret = PyNone
    /\ LET t == TranscriptTextOf(call.apify_data, call.max_chars)
       IN  ret' = PyDict(
                    [transcript_text |-> PyStr(t),
                     transcript_chars |->
                         IF t = <<>> THEN PyNone
                         ELSE Get(AnalyzedResult(1, Url(1), MetaOf(call.apify_data), t,
                                                 PyNone),
                                  "transcript_chars")])
    /\ UNCHANGED <<handler, GOOGLE_CLOUD_PROJECT, call, _client, thread, created>>

UtilNext ==
    \/ CallNormalizeUrls
    \/ CallNormalizeUrlsAgain
    \/ CallPickLanguagePriority
    \/ CallTranscriptText

UtilSpec == UtilInit /\ [][UtilNext]_vars

\* The texts of a Python list of str.
Texts(list) == [i \in DOMAIN list.l |-> list.l[i].s]

\* No text occurs twice in the sequence.
NoDuplicates(texts) ==
    \A i, j \in DOMAIN texts : i # j => texts[i] # texts[j]

\* The text holds no whitespace and no comma.
IsToken(t) == t # <<>> /\ \A i \in DOMAIN t : ~IsUrlSep(t[i].c)

\* The position of the first entry of the list that is the text t.
FirstSeen(list, t) == Least({i \in DOMAIN list.l : list.l[i].s = t})

\* C14: what normalize_urls returns holds no duplicates and only tokens that
\* start with http:// or https://; for a list whose entries are single tokens
\* it holds exactly the http(s) entries, in the order they are first seen;
\* and normalize_urls applied to what it returned returns the same list.
C14_NormalizeUrlsIdempotent ==
    (call.fn = "normalize_urls" /\ ret # PyNone) =>
        LET out == Texts(ret)
        IN  /\ ret.ty = "list"
            /\ NoDuplicates(out)
            /\ \A i \in DOMAIN out :
                  /\ IsToken(out[i])
                  /\ out[i][1] \in {Blk("http://"), Blk("https://")}
            /\ call.urls = PyNone => out = <<>>
            /\ (call.urls.ty = "list" /\ \A k \in DOMAIN call.urls.l :
                                            IsToken(call.urls.l[k].s)) =>
                  /\ \A k \in DOMAIN call.urls.l :
                        call.urls.l[k].s[1].c \in {"http://", "https://"} =>
                            \E i \in DOMAIN out : out[i] = call.urls.l[k].s
                  /\ \A i, j \in DOMAIN out :
                        i < j => FirstSeen(call.urls, out[i]) < FirstSeen(call.urls, out[j])
            /\ call.again => ret = call.urls

\* normalize_urls has been applied to its own result, a list of two URLs, and
\* has returned.
C14_Witness ==
    /\ call.fn = "normalize_urls"
    /\ call.again
    /\ ret # PyNone
    /\ Len(ret.l) = 2
    /\ ret = StrList(<<Url(2), Url(1)>>)

\* The languages argument is None, empty, or holds only empty and blank entries.
IsBlankLanguages(languages) ==
    languages = PyNone \/ \A k \in DOMAIN languages.l : Strip(languages.l[k].s) = <<>>

\* C15: pick_language_priority returns ["ko", "en"] for None, for an empty
\* list and for a list of empty or blank entries; whatever it is given, what it
\* returns is not empty, every entry is non-empty, trimmed and lower-case, no
\* entry occurs twice, every entry is the trimmed lower-case form of an entry
\* given, and entries come in the order in which they are first seen.
C15_LanguagePriorityNeverEmpty ==
    (call.fn = "pick_language_priority" /\ ret # PyNone) =>
        LET out   == Texts(ret)
            given == IF call.languages = PyNone THEN <<>>
                     ELSE [k \in DOMAIN call.languages.l |->
                              PyStr(Lower(Strip(call.languages.l[k].s)))]
        IN  /\ out # <<>>
            /\ NoDuplicates(out)
            /\ \A i \in DOMAIN out :
                  /\ out[i] # <<>>
                  /\ Strip(out[i]) = out[i]
                  /\ Lower(out[i]) = out[i]
                  /\ \A r \in DOMAIN out[i] : out[i][r].c \notin {"K", "O", "E", "N"}
            /\ IsBlankLanguages(call.languages) =>
                  out = << <<Ch("k", 1), Ch("o", 1)>>, <<Ch("e", 1), Ch("n", 1)>> >>
            /\ ~IsBlankLanguages(call.languages) =>
                  /\ \A k \in DOMAIN given :
                        given[k].s # <<>> => \E i \in DOMAIN out : out[i] = given[k].s
                  /\ \A i \in DOMAIN out : \E k \in DOMAIN given : given[k].s = out[i]
                  /\ \A i, j \in DOMAIN out :
                        i < j => FirstSeen(PyList(given), out[i]) <
                                 FirstSeen(PyList(given), out[j])

\* Given ["\tKO ", "ko"], or another list whose two entries fold to "ko", one
\* entry "ko" is returned.
C15_Witness ==
    /\ call.fn = "pick_language_priority"
    /\ ret = StrList(<< <<Ch("k", 1), Ch("o", 1)>> >>)
    /\ Len(call.languages.l) = 2
    /\ call.languages.l[1] # call.languages.l[2]

\* C16 as stated: for every record and every setting of the maximum, the
\* extracted transcript text is at most max_chars long and the reported
\* transcript_chars is its length.
C16_TranscriptWithinMaxChars ==
    (call.fn = "transcript_text" /\ ret # PyNone) =>
        LET text == Get(ret, "transcript_text").s
        IN  /\ StrLen(text) <= call.max_chars
            /\ text # <<>> => Get(ret, "transcript_chars") = PyInt(StrLen(text))

\* C16 amended: the same for every setting of the maximum that is at least 1.
C16_TranscriptWithinPositiveMaxChars ==
    (call.fn = "transcript_text" /\ ret # PyNone /\ call.max_chars >= 1) =>
        LET text == Get(ret, "transcript_text").s
        IN  /\ StrLen(text) <= call.max_chars
            /\ text # <<>> => Get(ret, "transcript_chars") = PyInt(StrLen(text))

\* A record without direct text whose joined segments are longer than the
\* maximum of 12: the text is cut to 12 characters and 12 is reported.
C16_Witness ==
    /\ call.fn = "transcript_text"
    /\ ret # PyNone
    /\ call.max_chars = 12
    /\ ~Truthy(Get(call.apify_data, "transcript_text"))
    /\ StrLen(segments_to_text(Get(call.apify_data, "transcript"), 0)) > 12
    /\ StrLen(Get(ret, "transcript_text").s) = 12
    /\ Get(ret, "transcript_chars") = PyInt(12)

\* The terminal states of an item pipeline, read off the item's result.
IsFetchFailed(res) ==
    Get(res, "ok") = PyBool(FALSE) /\ Get(res, "stage") = PyStr(Lit("apify"))

IsNoTranscript(res) ==
    Get(res, "ok") = PyBool(FALSE) /\ Get(res, "stage") = PyStr(Lit("transcript"))

IsAnalyzedOk(res) ==
    Get(res, "ok") = PyBool(TRUE) /\ Get(Get(res, "videoAnalysis"), "ok") = PyBool(TRUE)

IsAnalysisFailed(res) ==
    Get(res, "ok") = PyBool(TRUE) /\ Get(Get(res, "videoAnalysis"), "ok") = PyBool(FALSE)

\* The number of terminal states the result res is in.
TerminalStates(res) ==
    Cardinality({k \in {"FetchFailed", "NoTranscript", "Analyzed/ok",
                        "Analyzed/analysisFailed"} :
                    CASE k = "FetchFailed" -> IsFetchFailed(res)
                      [] k = "NoTranscript" -> IsNoTranscript(res)
                      [] k = "Analyzed/ok" -> IsAnalyzedOk(res)
                      [] OTHER -> IsAnalysisFailed(res)})

\* ANALYZE_FIRST -> PARSE_FAIL -> ANALYZE_REPAIR -> PARSE_FAIL: the first call
\* returned an output that did not parse, one repair call followed, and its
\* output did not parse either.
RepairPathFailed(g) ==
    /\ Len(g) = 2
    /\ g[1].kind = "video_analysis" /\ g[1].status = "returned" /\ ~Parses(g[1].text)
    /\ g[2].kind = "repair" /\ g[2].status = "returned" /\ ~Parses(g[2].text)

\* The first call raised, or the first output did not parse and the repair
\* call raised.
GenerationRaised(g) ==
    \/ Len(g) = 1 /\ g[1].kind = "video_analysis" /\ g[1].status = "raised"
    \/ /\ Len(g) = 2
       /\ g[1].kind = "video_analysis" /\ g[1].status = "returned" /\ ~Parses(g[1].text)
       /\ g[2].kind = "repair" /\ g[2].status = "raised"

\* C17 as stated: an item that has returned is in exactly one of the four
\* terminal states, and it is in Analyzed/analysisFailed exactly when its
\* generation calls went ANALYZE_FIRST -> PARSE_FAIL -> ANALYZE_REPAIR ->
\* PARSE_FAIL.
C17_AnalysisFailedOnlyAfterRepair ==
    \A p \in Items :
        pc[p] = "done" =>
            /\ TerminalStates(result[p]) = 1
            /\ IsAnalysisFailed(result[p]) <=> RepairPathFailed(genLog[p])

\* C17 amended: an item that has returned is in exactly one of the four
\* terminal states, and it is in Analyzed/analysisFailed exactly when its
\* generation calls went that way or one of them, the first call or the repair
\* call, raised.
C17_AnalysisFailedAfterRepairOrRaise ==
    \A p \in Items :
        pc[p] = "done" =>
            /\ TerminalStates(result[p]) = 1
            /\ IsAnalysisFailed(result[p]) <=>
                   (RepairPathFailed(genLog[p]) \/ GenerationRaised(genLog[p]))

\* Two items ended in Analyzed/analysisFailed: one after two outputs that did
\* not parse, one after its first generation call raised.
C17_Witness ==
    \E p, q \in Items :
        /\ pc[p] = "done" /\ pc[q] = "done"
        /\ IsAnalysisFailed(result[p]) /\ RepairPathFailed(genLog[p])
        /\ IsAnalysisFailed(result[q]) /\ Len(genLog[q]) = 1
        /\ genLog[q][1].status = "raised"

\* The pipelines of the accepted request exist.
Running == mainpc \notin {"start", "rejected"}

\* C18: the free slots of the gate and the pipelines past the gate always add
\* up to the request's concurrency: a pipeline holds one slot from its admission
\* to its return and none before or after, whichever way it returns (fetch
\* failure, no transcript, analysis success, analysis failure after a parse
\* failure or after an error raised by a generation call); once every pipeline
\* has returned all slots are free.
C18_SlotReleasedOnEveryExit ==
    Running =>
        /\ sem >= 0
        /\ sem + Cardinality(InFlight) = req.concurrency
        /\ GatherComplete => sem = req.concurrency

\* With one slot, the first item ended in FetchFailed after its fetch calls
\* raised, the second was admitted after it and ended in Analyzed/analysisFailed
\* after a generation call raised; the slot is free again.
C18_Witness ==
    /\ Running
    /\ req.concurrency = 1
    /\ Cardinality(Items) = 2
    /\ GatherComplete
    /\ ~overtaken
    /\ IsFetchFailed(result[1])
    /\ IsAnalysisFailed(result[2])
    /\ Last(genLog[2]).status = "raised"
    /\ sem = 1

\* The generation calls issued by the first n items.
RECURSIVE ItemGenCalls(_)
ItemGenCalls(n) == IF n = 0 THEN 0 ELSE Len(genLog[n]) + ItemGenCalls(n - 1)

\* The fetch of item p succeeded and its record yields a transcript.
FetchedWithTranscript(p) ==
    /\ fetchLog[p] # <<>>
    /\ Last(fetchLog[p]).status = "returned"
    /\ Truthy(Last(fetchLog[p]).data)
    /\ ExtractTranscript(Last(fetchLog[p]).data) # <<>>

\* C21: an item issues generation calls only after its fetch succeeded with a
\* record whose extracted transcript is not empty; an item that ended as
\* FetchFailed or NoTranscript issued none; an item issues at most two, so a
\* request over N URLs issues at most 2*N item generation calls and at most
\* one synthesis call.
C21_GenerationOnlyWithTranscript ==
    /\ \A p \in Items :
          /\ genLog[p] # <<>> => FetchedWithTranscript(p)
          /\ (pc[p] = "done" /\ (IsFetchFailed(result[p]) \/ IsNoTranscript(result[p])))
                => genLog[p] = <<>>
          /\ Len(genLog[p]) <= 2
    /\ Running =>
          /\ ItemGenCalls(Len(urls)) <= 2 * Len(urls)
          /\ synthCalls <= 1
          /\ Len(synthLog) = synthCalls
          /\ ItemGenCalls(Len(urls)) + synthCalls <= 2 * Len(urls) + 1

\* The request over two URLs has returned: the first item ended as NoTranscript
\* without a generation call, the second made its two generation calls, and
\* the synthesis call was made.
C21_Witness ==
    /\ mainpc = "returned"
    /\ Len(urls) = 2
    /\ IsNoTranscript(result[1])
    /\ fetchLog[1] # <<>>
    /\ genLog[1] = <<>>
    /\ Len(genLog[2]) = 2
    /\ synthCalls = 1

\* C22: a request whose urls normalize to the empty list never gets past the
\* start other than by the rejection, which raises HTTPException 400; when a
\* request is rejected its urls normalize to the empty list, no semaphore and
\* no item task were created, no fetch, generation or synthesis call was
\* issued, and there is no ResponseDocument.
C22_EmptyUrlsRejected ==
    /\ (normalize_urls(req.urls) = <<>> /\ mainpc # "start") =>
          /\ mainpc = "rejected"
          /\ exception # PyNone
          /\ exception.ty = "HTTPException"
          /\ exception.status_code = 400
    /\ mainpc = "rejected" =>
          /\ normalize_urls(req.urls) = <<>>
          /\ urls = <<>>
          /\ sem = 0
          /\ pc = <<>>
          /\ fetchLog = <<>>
          /\ genLog = <<>>
          /\ synthLog = <<>>
          /\ synthCalls = 0
          /\ videos = <<>>
          /\ response = PyNone

\* A request whose urls hold entries, none of them an http(s) URL, was rejected.
C22_Witness ==
    /\ mainpc = "rejected"
    /\ req.urls = NoHttpUrls
    /\ exception = HTTPException(400, Lit("urls is empty"))
    /\ response = PyNone

(***************************************************************************)
(* app/gemini_rest.py: the worker threads of asyncio.to_thread inside      *)
(* analyze_with_gemini and _get_client.  A thread can be switched out      *)
(* between any two statements, and genai.Client(...) is a call that runs   *)
(* to its end before its value is stored in the global.                    *)
(***************************************************************************)
MaxThreads == 3

\* The n-th genai.Client object constructed by the process.
Client(n) == [ty |-> "client", id |-> n]

\* A worker thread that has entered analyze_with_gemini: line 27 calls
\* _get_client.
EnteredThread == [pc |-> "check", made |-> PyNone, client |-> PyNone]

ClientInit ==
    /\ APIFY_TOKEN = <<>>
    /\ req = NoRequest
    /\ HandlerIdle
    /\ GOOGLE_CLOUD_PROJECT \in {<<>>, Lit("proj")}
    /\ call = NoCall
    /\ ret = PyNone
    /\ _client = PyNone
    /\ thread = <<>>
    /\ created = 0

\* await asyncio.to_thread(analyze_with_gemini, ...): one more worker thread
\* runs analyze_with_gemini.
Dispatch ==
    /\ Len(thread) < MaxThreads
    /\ thread' = Append(thread, EnteredThread)
    /\ UNCHANGED <<handler, GOOGLE_CLOUD_PROJECT, call, ret, _client, created>>

\* Lines 12-13: if _client is not None: return _client
CheckClient(t) ==
    /\ thread[t].pc = "check"
    /\ thread' = [thread EXCEPT ![t] =
                    IF _client # PyNone
                    THEN [@ EXCEPT !.pc = "generate", !.client = _client]
                    ELSE [@ EXCEPT !.pc = "project"]]
    /\ UNCHANGED <<handler, GOOGLE_CLOUD_PROJECT, call, ret, _client, created>>

\* Lines 15-17: the project of the environment, RuntimeError when none.
ReadProject(t) ==
    /\ thread[t].pc = "project"
    /\ thread' = [thread EXCEPT ![t].pc =
                    IF GOOGLE_CLOUD_PROJECT = <<>> THEN "raised" ELSE "construct"]
    /\ UNCHANGED <<handler, GOOGLE_CLOUD_PROJECT, call, ret, _client, created>>

\* Lines 19-23, the right-hand side: genai.Client(...) constructs a client.
ConstructClient(t) ==
    /\ thread[t].pc = "construct"
    /\ created' = created + 1
    /\ thread' = [thread EXCEPT ![t] =
                    [@ EXCEPT !.pc = "assign", !.made = Client(created + 1)]]
    /\ UNCHANGED <<handler, GOOGLE_CLOUD_PROJECT, call, ret, _client>>

\* Line 19, the assignment: _client = <the client constructed>
AssignClient(t) ==
    /\ thread[t].pc = "assign"
    /\ _client' = thread[t].made
    /\ thread' = [thread EXCEPT ![t].pc = "return"]
    /\ UNCHANGED <<handler, GOOGLE_CLOUD_PROJECT, call, ret, created>>

\* Line 24: return _client, and line 27: client = _get_client()
ReturnClient(t) ==
    /\ thread[t].pc = "return"
    /\ thread' = [thread EXCEPT ![t] =
                    [@ EXCEPT !.pc = "generate", !.client = _client]]
    /\ UNCHANGED <<handler, GOOGLE_CLOUD_PROJECT, call, ret, _client, created>>

\* Lines 28-36: client.models.generate_content(...) returns or raises.
Generate(t, raises) ==
    /\ thread[t].pc = "generate"
    /\ thread' = [thread EXCEPT ![t].pc = IF raises THEN "raised" ELSE "returned"]
    /\ UNCHANGED <<handler, GOOGLE_CLOUD_PROJECT, call, ret, _client, created>>

ClientNext ==
    \/ Dispatch
    \/ \E t \in DOMAIN thread : CheckClient(t)
    \/ \E t \in DOMAIN thread : ReadProject(t)
    \/ \E t \in DOMAIN thread : ConstructClient(t)
    \/ \E t \in DOMAIN thread : AssignClient(t)
    \/ \E t \in DOMAIN thread : ReturnClient(t)
    \/ \E t \in DOMAIN thread, raises \in BOOLEAN : Generate(t, raises)

ClientSpec == ClientInit /\ [][ClientNext]_vars

\* C20: the process constructs the generation-provider client at most once,
\* also when several worker threads are inside _get_client before any of
\* them has stored a client.
C20_ClientConstructedOnce == created <= 1

(***************************************************************************)
(* Progress.  The event loop runs a task that is ready, asyncio wakes a     *)
(* waiter of the semaphore when a slot is free, and every provider call    *)
(* (fetch or generation) returns or raises in the end.                     *)
(*                                                                         *)
(* The fairness conditions are put on the control state alone.  ItemRuns(p)*)
(* says that item p is ready and that its pc or attempt moves; a step of    *)
(* Next changes <<pc, attempt>> at p exactly when it is a step of Acquire,  *)
(* FetchRaises, FetchReturns, GenReturns, RepairReturns or GenRaises of p,  *)
(* and one of these is enabled exactly when ItemReady(p) holds.  So         *)
(* WF_control(ItemRuns(p)) is weak fairness of the steps of item p, and     *)
(* likewise WF_mainpc(AggregationRuns) for the steps of _analyze_impl that  *)
(* follow gather.                                                          *)
(***************************************************************************)
\* The control state of the item pipelines.
control == <<pc, attempt>>

\* Item p can take a step: it waits at the gate and a slot is free, or it is
\* past the gate and awaits a provider call.
ItemReady(p) ==
    /\ p \in Items
    /\ \/ pc[p] = "sem" /\ SemCanAcquire(sem)
       \/ pc[p] \in {"fetch", "gen1", "gen2"}

\* Item p takes a step.
ItemRuns(p) ==
    /\ ItemReady(p)
    /\ \E to \in {"fetch", "gen1", "gen2", "done"}, k \in 0..Len(lang_priority) :
          /\ pc' = [pc EXCEPT ![p] = to]
          /\ attempt' = [attempt EXCEPT ![p] = k]

\* _analyze_impl can go on after gather: every task has returned, or the
\* synthesis call is awaited.
AggregationReady ==
    \/ mainpc = "gather" /\ GatherComplete
    \/ mainpc = "synth"

\* _analyze_impl goes on after gather.
AggregationRuns ==
    /\ AggregationReady
    /\ \E to \in {"synth", "returned", "raised"} : mainpc' = to

FairSpec ==
    /\ Spec
    /\ \A p \in 1..MaxUrls : WF_control(ItemRuns(p))
    /\ WF_mainpc(AggregationRuns)

\* Every step of Next is the start of the request, a step of one item, or a
\* step of _analyze_impl after gather, as the fairness conditions name them.
StepsAreNamed ==
    [][ \/ mainpc = "start"
        \/ \E p \in 1..MaxUrls : ItemRuns(p) /\ control' # control
        \/ AggregationRuns /\ mainpc' # mainpc ]_vars

\* Every item pipeline that waits at the gate is admitted in the end.
EveryItemAdmitted ==
    \A p \in 1..MaxUrls :
        (p \in Items /\ pc[p] = "sem") ~> (p \in Items /\ pc[p] # "sem")

\* Every admitted item pipeline reaches a terminal result.
EveryItemFinishes ==
    \A p \in 1..MaxUrls :
        (p \in Items /\ pc[p] # "done") ~> (p \in Items /\ pc[p] = "done")

\* C19: every item pipeline that waits at the gate is admitted and reaches a
\* terminal result, and every accepted request returns its ResponseDocument in
\* the end.
C19_EveryRequestReturns ==
    /\ EveryItemAdmitted
    /\ EveryItemFinishes
    /\ (mainpc = "gather") ~> (mainpc = "returned")

\* What does hold: the items are admitted and finish, and _analyze_impl ends,
\* by returning the document or by raising out of the aggregation loop.
EveryRequestEnds ==
    /\ EveryItemAdmitted
    /\ EveryItemFinishes
    /\ (mainpc = "gather") ~> (mainpc \in {"returned", "raised"})

====
